---- MODULE Spec2Model ----
(***************************************************************************)
(* A model of muton's persistence store (src/src/store.rs), of the         *)
(* baseline/timeout rule of the test runner and of the campaign scheduler  *)
(* (src/src/runner.rs, src/src/cmds/run.rs, src/src/cmds/test.rs).         *)
(*                                                                         *)
(* Texts are sequences of one-character strings, so that byte offsets and  *)
(* newline counts are computed on them as the code computes them on byte   *)
(* strings.                                                                *)
(***************************************************************************)
EXTENDS Integers, Sequences, FiniteSets, TLC

\* an absent message or name, and an absent number (Option<u32>, Option<i64>)
None == "None"
NoneNum == -1

(***************************************************************************)
(* Bounds of the model.                                                    *)
(***************************************************************************)
MaxMutantRows == 2
MaxBaselineMs == 2001
MaxUserTimeout == 4
MaxClock == 2
MaxRowId == 3

VARIABLES
  \* ---- the store (one table per variable, rows in rowid order)
  targets, mutants, outcomes,
  \* ---- the last store call and what it returned (StoreSpec)
  store_call,
  \* ---- TestRunner::new_with_baseline taken alone (TimeoutSpec)
  nb_pc, nb_user_timeout, nb_runner_timeout, nb_duration_ms, nb_result,
  \* ---- the command line: subcommand, --comprehensive, --mutations, --timeout
  \* ---- and the configuration's per-target rule, the --ids of `test`
  command, comprehensive, allowed_slugs, cli_timeout, per_target_rule, arg_ids,
  \* ---- 1 for the first invocation of the command, 2 for a second one with
  \* ---- the same command line on the store the first one left
  run_no,
  \* ---- the process: cancellation flag, files, position, exit result
  running, disk, pc, ctx, exit_error,
  \* ---- execute_run / execute_test: groups still to do, ids of the group
  groups, ids,
  \* ---- the TestRunner
  timeout, has_active_mutation, current_target,
  uncaught_high_sev_lines, uncaught_med_sev_lines,
  \* ---- locals of the campaign: targets and mutants still to do, the
  \* ---- target and mutant of the running test_mutant, the campaign's result
  campaign_targets, mutant_queue, tm_target, tm_mutant, campaign_result,
  \* ---- the child process and the seconds elapsed since it was spawned
  child, child_code, clock,
  \* ---- history: outcomes stored in this target's iteration, the mutant in
  \* ---- flight when SIGINT arrived, store and files when the group began, the
  \* ---- exit code of the baseline, the target of a failed test_mutant
  iter_log, found_log, cancel_inflight, cancel_observed, group_start, baseline_exit, tm_error,
  \* ---- history: the elapsed seconds when the child exited and when the last
  \* ---- sleep of the poll loop began
  exit_clock, sleep_start,
  \* ---- history: a read or a write of the store failed during `run`
  store_failed,
  \* ---- mutation generation: the target, its parsed tree, the position in
  \* ---- apply_all_mutations, the mutations still to dispatch, the mutants
  \* ---- emitted so far, the last call of Target::mutate with its result
  gen_target, gen_tree, gen_pc, gen_todo, all_mutants, mutated,
  \* ---- print results: the tallies printed for each target
  report,
  \* ---- run_and_wait with its two reader threads (DrainSpec): the state of
  \* ---- the child; per stream, the lines the child wrote, the lines in the
  \* ---- pipe, the lines in the channel, the lines collected by the poll
  \* ---- loop; the position of the poll loop and what it returned
  rw_child, written, pipe, rx, buf, rw_pc, rw_result

storeVars == <<targets, mutants, outcomes>>
nbVars == <<nb_pc, nb_user_timeout, nb_runner_timeout, nb_duration_ms, nb_result>>
argVars == <<command, comprehensive, allowed_slugs, cli_timeout, per_target_rule, arg_ids,
             run_no>>
runnerVars == <<timeout, has_active_mutation, current_target,
                uncaught_high_sev_lines, uncaught_med_sev_lines>>
loopVars == <<groups, ids, campaign_targets, mutant_queue, tm_target, tm_mutant, campaign_result>>
childVars == <<child, child_code, clock>>
histVars == <<iter_log, found_log, store_failed, exit_clock, sleep_start, cancel_inflight, cancel_observed, group_start, baseline_exit,
             tm_error>>
schedVars == <<argVars, running, disk, pc, ctx, exit_error, runnerVars, loopVars,
               childVars, histVars>>
genVars == <<gen_target, gen_tree, gen_pc, gen_todo, all_mutants, mutated>>
ioVars == <<rw_child, written, pipe, rx, buf, rw_pc, rw_result>>
vars == <<storeVars, store_call, nbVars, schedVars, genVars, report, ioVars>>

(***************************************************************************)
(* Helpers on sequences.                                                   *)
(***************************************************************************)
Range(s) == {s[i] : i \in 1..Len(s)}

Max(S) == CHOOSE x \in S : \A y \in S : y <= x

\* number of elements of s equal to c
RECURSIVE CountOf(_, _)
CountOf(s, c) ==
  IF s = <<>> THEN 0
  ELSE (IF Head(s) = c THEN 1 ELSE 0) + CountOf(Tail(s), c)

(***************************************************************************)
(* types/hash.rs: the content hash.  SHA-256 is modelled as an injective   *)
(* tagging of the text (no collisions).                                    *)
(***************************************************************************)
digest(text) == <<"sha256", text>>

(***************************************************************************)
(* types/language.rs: language by file extension.                          *)
(***************************************************************************)
from_path(path) ==
  CASE path \in {"a.fc", "b.fc"} -> "func"
    [] path \in {"c.tact"} -> "tact"
    [] OTHER -> None

(***************************************************************************)
(* store.rs: the three upserts, as functions from a table and an argument  *)
(* to the new table and the returned value.                                *)
(***************************************************************************)
\* SQLite's rowid of a newly inserted row
last_insert_rowid(rows) ==
  IF rows = <<>> THEN 1 ELSE 1 + Max({rows[i].id : i \in 1..Len(rows)})

\* fetch_optional: the index of the first of the selected rows, or 0 for none
fetch_optional(selected) ==
  IF selected = {} THEN 0 ELSE CHOOSE i \in selected : \A j \in selected : i <= j

\* a slip: the existing row is looked up by path instead of by hash
add_target_by_path(rows, target) ==
  LET file_hash_hex == target.file_hash
      Match(r) == r.path = target.path
      i == fetch_optional({k \in 1..Len(rows) : Match(rows[k])})
  IN  IF i # 0 /\ rows[i].file_hash = file_hash_hex
        THEN [rows |-> rows, ret |-> rows[i].id]
      ELSE [rows |-> Append(rows, [id |-> last_insert_rowid(rows),
                                   path |-> target.path,
                                   file_hash |-> file_hash_hex,
                                   text |-> target.text,
                                   language |-> target.language]),
            ret |-> last_insert_rowid(rows)]

add_target(rows, target) ==
  LET file_hash_hex == target.file_hash
      Match(r) == r.file_hash = file_hash_hex
      i == fetch_optional({k \in 1..Len(rows) : Match(rows[k])})
  IN  IF i # 0 /\ rows[i].path = target.path
        THEN [rows |-> rows, ret |-> rows[i].id]
      ELSE IF i # 0
        THEN [rows |-> [j \in 1..Len(rows) |->
                          IF rows[j].id = rows[i].id
                            THEN [rows[j] EXCEPT !.path = target.path]
                            ELSE rows[j]],
              ret |-> rows[i].id]
      ELSE [rows |-> Append(rows, [id |-> last_insert_rowid(rows),
                                   path |-> target.path,
                                   file_hash |-> file_hash_hex,
                                   text |-> target.text,
                                   language |-> target.language]),
            ret |-> last_insert_rowid(rows)]

\* a slip: line_offset is compared as part of the identity
add_mutant_with_line(rows, mutant) ==
  LET Match(r) == /\ r.target_id = mutant.target_id
                  /\ r.byte_offset = mutant.byte_offset
                  /\ r.line_offset = mutant.line_offset
                  /\ r.old_text = mutant.old_text
                  /\ r.new_text = mutant.new_text
                  /\ r.mutation_slug = mutant.mutation_slug
      i == fetch_optional({k \in 1..Len(rows) : Match(rows[k])})
  IN  IF i # 0
        THEN [rows |-> rows, ret |-> NoneNum]
        ELSE [rows |-> Append(rows, [id |-> last_insert_rowid(rows),
                                     target_id |-> mutant.target_id,
                                     byte_offset |-> mutant.byte_offset,
                                     line_offset |-> mutant.line_offset,
                                     old_text |-> mutant.old_text,
                                     new_text |-> mutant.new_text,
                                     mutation_slug |-> mutant.mutation_slug]),
              ret |-> last_insert_rowid(rows)]

add_mutant(rows, mutant) ==
  LET Match(r) == /\ r.target_id = mutant.target_id
                  /\ r.byte_offset = mutant.byte_offset
                  /\ r.old_text = mutant.old_text
                  /\ r.new_text = mutant.new_text
                  /\ r.mutation_slug = mutant.mutation_slug
      i == fetch_optional({k \in 1..Len(rows) : Match(rows[k])})
  IN  IF i # 0
        THEN [rows |-> rows, ret |-> NoneNum]
        ELSE [rows |-> Append(rows, [id |-> last_insert_rowid(rows),
                                     target_id |-> mutant.target_id,
                                     byte_offset |-> mutant.byte_offset,
                                     line_offset |-> mutant.line_offset,
                                     old_text |-> mutant.old_text,
                                     new_text |-> mutant.new_text,
                                     mutation_slug |-> mutant.mutation_slug]),
              ret |-> last_insert_rowid(rows)]

\* a slip: the row is inserted without looking for an existing one
add_outcome_insert_only(rows, outcome) ==
  [rows |-> Append(rows, [mutant_id |-> outcome.mutant_id,
                          status |-> outcome.status,
                          output |-> outcome.output,
                          time |-> outcome.time,
                          duration_ms |-> outcome.duration_ms]),
   ret |-> outcome.mutant_id]

add_outcome(rows, outcome) ==
  LET Match(r) == r.mutant_id = outcome.mutant_id
      i == fetch_optional({k \in 1..Len(rows) : Match(rows[k])})
  IN  IF i # 0
        THEN [rows |-> [j \in 1..Len(rows) |->
                          IF rows[j].mutant_id = outcome.mutant_id
                            THEN [rows[j] EXCEPT !.status = outcome.status,
                                                 !.output = outcome.output,
                                                 !.time = outcome.time,
                                                 !.duration_ms = outcome.duration_ms]
                            ELSE rows[j]],
              ret |-> outcome.mutant_id]
        ELSE [rows |-> Append(rows, [mutant_id |-> outcome.mutant_id,
                                     status |-> outcome.status,
                                     output |-> outcome.output,
                                     time |-> outcome.time,
                                     duration_ms |-> outcome.duration_ms]),
              ret |-> outcome.mutant_id]

\* get_outcome: the row of a mutant id as <<row>>, or <<>> for Ok(None)
get_outcome(rows, mutant_id) ==
  LET Match(r) == r.mutant_id = mutant_id
      i == fetch_optional({k \in 1..Len(rows) : Match(rows[k])})
  IN  IF i # 0 THEN <<rows[i]>> ELSE <<>>

\* get_mutants: the mutants of a target, in rowid order
get_mutants(rows, target_id) ==
  LET Of(r) == r.target_id = target_id IN SelectSeq(rows, Of)

\* get_mutants_without_outcomes: the LEFT JOIN rows without outcome
get_mutants_without_outcomes(ms, os) ==
  LET Untested(m) == \A i \in 1..Len(os) : os[i].mutant_id # m.id
  IN  SelectSeq(ms, Untested)

\* the JOIN of get_mutants_to_test: one row per pair of a mutant and a Timeout
\* outcome of it
RECURSIVE timeout_records(_, _)
timeout_records(ms, os) ==
  IF ms = <<>> THEN <<>>
  ELSE LET Hit(o) == o.mutant_id = Head(ms).id /\ o.status = "Timeout"
       IN  [k \in 1..Len(SelectSeq(os, Hit)) |-> Head(ms)] \o timeout_records(Tail(ms), os)

\* a slip: the mutants whose outcome is Timeout are left out
get_mutants_to_test_untested_only(ms, os) ==
  [mutants |-> get_mutants_without_outcomes(ms, os),
   untested_count |-> Len(get_mutants_without_outcomes(ms, os)),
   retest_count |-> 0]

\* store.get_mutants_to_test: mutants without outcome, then mutants whose
\* outcome is Timeout, with the two counts
get_mutants_to_test(ms, os) ==
  [mutants |-> get_mutants_without_outcomes(ms, os) \o timeout_records(ms, os),
   untested_count |-> Len(get_mutants_without_outcomes(ms, os)),
   retest_count |-> Len(timeout_records(ms, os))]

\* get_mutant_test_counts: the loop over the mutants of one target
RECURSIVE count_loop(_, _, _)
count_loop(todo, os, counts) ==
  IF todo = <<>> THEN counts
  ELSE LET existing == get_outcome(os, Head(todo).id)
       IN  count_loop(Tail(todo), os,
             IF existing = <<>> THEN [counts EXCEPT !.untested_count = @ + 1]
             ELSE IF existing[1].status = "Timeout"
               THEN [counts EXCEPT !.retest_count = @ + 1]
             ELSE counts)

get_mutant_test_counts(ms, os, target_id) ==
  count_loop(get_mutants(ms, target_id), os, [untested_count |-> 0, retest_count |-> 0])

\* the schema's foreign keys (migrations/): a mutant row needs its target row,
\* an outcome row its mutant row
references_target(ts, mutant) == \E i \in 1..Len(ts) : ts[i].id = mutant.target_id

references_mutant(ms, outcome) == \E i \in 1..Len(ms) : ms[i].id = outcome.mutant_id

\* the tables as one value
Tables(ts, ms, os) == [targets |-> ts, mutants |-> ms, outcomes |-> os]

\* the DELETE of remove_target taken alone: only the row of the target goes
remove_target_row_only(db, target_id) ==
  LET KeepT(t) == t.id # target_id
  IN  [db EXCEPT !.targets = SelectSeq(db.targets, KeepT)]

\* remove_target: the DELETE and the schema's ON DELETE CASCADE
remove_target(db, target_id) ==
  LET gone == {db.mutants[i].id : i \in {k \in 1..Len(db.mutants) :
                                           db.mutants[k].target_id = target_id}}
      KeepT(t) == t.id # target_id
      KeepM(m) == m.target_id # target_id
      KeepO(o) == o.mutant_id \notin gone
  IN  Tables(SelectSeq(db.targets, KeepT), SelectSeq(db.mutants, KeepM),
             SelectSeq(db.outcomes, KeepO))

\* get_all_targets: the rows of the table, in rowid order
get_all_targets(ts) == ts

(***************************************************************************)
(* cmds/clean.rs and cmds/purge.rs.                                        *)
(***************************************************************************)
\* what the file system holds under a path
Missing == [exists |-> FALSE, readable |-> FALSE, content |-> <<>>]
Unreadable == [exists |-> TRUE, readable |-> FALSE, content |-> <<>>]
File(text) == [exists |-> TRUE, readable |-> TRUE, content |-> text]

\* execute_clean, the body of the loop: is the target removed?
is_stale(file, target) ==
  IF ~file.exists THEN TRUE
  ELSE IF file.readable THEN digest(file.content) # target.file_hash
  ELSE TRUE

\* execute_clean, the loop over the targets read at the start
RECURSIVE clean_loop(_, _, _)
clean_loop(db, todo, fs) ==
  IF todo = <<>> THEN db
  ELSE clean_loop(IF is_stale(fs[Head(todo).path], Head(todo))
                    THEN remove_target(db, Head(todo).id)
                    ELSE db,
                  Tail(todo), fs)

\* get_target_id_by_path: the id of the first target stored under the path
get_target_id_by_path(ts, path) ==
  LET i == fetch_optional({k \in 1..Len(ts) : ts[k].path = path})
  IN  IF i # 0 THEN ts[i].id ELSE NoneNum

\* purge_target: the target is removed when the user confirms
purge_target(db, target_id, confirmed) ==
  IF target_id \notin confirmed THEN db ELSE remove_target(db, target_id)

\* execute_purge without --target: the loop over all targets
RECURSIVE purge_loop(_, _, _)
purge_loop(db, todo, confirmed) ==
  IF todo = <<>> THEN db
  ELSE purge_loop(purge_target(db, Head(todo).id, confirmed), Tail(todo), confirmed)

(***************************************************************************)
(* Inputs of the store calls.                                              *)
(***************************************************************************)
TextA == <<"x", "\n", "y">>
TextB == <<"t", "\n", "f">>

\* Target::load_targets builds the Target of a file: id 0 until stored
LoadedTarget(path, text) ==
  [id |-> 0, path |-> path, file_hash |-> digest(text), text |-> text,
   language |-> from_path(path)]

TargetInputs ==
  {LoadedTarget("a.fc", TextA), LoadedTarget("b.fc", TextA), LoadedTarget("b.fc", TextB)}

BaseMutant ==
  [id |-> 0, target_id |-> 1, byte_offset |-> 0, line_offset |-> 0,
   old_text |-> <<"x">>, new_text |-> <<"E">>, mutation_slug |-> "ER"]

\* the base mutant and the mutants that differ from it in exactly one field
MutantInputs ==
  { BaseMutant,
    [BaseMutant EXCEPT !.target_id = 2],
    [BaseMutant EXCEPT !.byte_offset = 2],
    [BaseMutant EXCEPT !.line_offset = 1],
    [BaseMutant EXCEPT !.old_text = <<"x", "\n", "y">>],
    [BaseMutant EXCEPT !.new_text = <<"n">>],
    [BaseMutant EXCEPT !.mutation_slug = "CR"] }

OutcomeInputs ==
  { [mutant_id |-> 1, status |-> "Uncaught", output |-> "o1", time |-> 1, duration_ms |-> 0],
    [mutant_id |-> 1, status |-> "Timeout",  output |-> "o2", time |-> 2, duration_ms |-> 5],
    [mutant_id |-> 2, status |-> "TestFail", output |-> "o1", time |-> 1, duration_ms |-> 0] }

(***************************************************************************)
(* TestRunner::new_with_baseline: the timeout rule.                        *)
(***************************************************************************)
\* u32::div_ceil
div_ceil(a, b) == (a + b - 1) \div b

\* a slip: the baseline duration is rounded down instead of up
actual_timeout_floor(baseline_duration_ms, user_timeout) ==
  LET baseline_duration_secs == baseline_duration_ms \div 1000
      recommended_timeout == baseline_duration_secs * 2
  IN  IF user_timeout # NoneNum
        THEN IF user_timeout < baseline_duration_secs
               THEN [err |-> "Timeout too short", timeout |-> NoneNum, warn |-> FALSE]
             ELSE IF user_timeout < recommended_timeout
               THEN [err |-> None, timeout |-> user_timeout, warn |-> TRUE]
             ELSE [err |-> None, timeout |-> user_timeout, warn |-> FALSE]
        ELSE [err |-> None, timeout |-> recommended_timeout, warn |-> FALSE]

\* lines 82-115: Err("Timeout too short") or the timeout of the mutation runs
actual_timeout(baseline_duration_ms, user_timeout) ==
  LET baseline_duration_secs == div_ceil(baseline_duration_ms, 1000)
      recommended_timeout == baseline_duration_secs * 2
  IN  IF user_timeout # NoneNum
        THEN IF user_timeout < baseline_duration_secs
               THEN [err |-> "Timeout too short", timeout |-> NoneNum, warn |-> FALSE]
             ELSE IF user_timeout < recommended_timeout
               THEN [err |-> None, timeout |-> user_timeout, warn |-> TRUE]
             ELSE [err |-> None, timeout |-> user_timeout, warn |-> FALSE]
        ELSE [err |-> None, timeout |-> recommended_timeout, warn |-> FALSE]


(***************************************************************************)
(* StoreSpec: any sequence of store calls.                                 *)
(***************************************************************************)
\* the two pipes of the child
Streams == {"stdout", "stderr"}

NoCall == [op |-> "none", arg |-> None, ret |-> NoneNum]

NoResult == [err |-> None, timeout |-> NoneNum, warn |-> FALSE]

NbIdle ==
  /\ nb_pc = "idle"
  /\ nb_user_timeout = NoneNum
  /\ nb_runner_timeout = NoneNum
  /\ nb_duration_ms = 0
  /\ nb_result = NoResult

\* no test command is being followed through its pipes
IoIdle ==
  /\ rw_child = "none"
  /\ written = [s \in Streams |-> <<>>]
  /\ pipe = [s \in Streams |-> <<>>]
  /\ rx = [s \in Streams |-> <<>>]
  /\ buf = [s \in Streams |-> <<>>]
  /\ rw_pc = "idle"
  /\ rw_result = <<>>

\* no mutants are being generated, no results printed
GenIdle ==
  /\ gen_target = <<>>
  /\ gen_tree = <<>>
  /\ gen_pc = "idle"
  /\ gen_todo = <<>>
  /\ all_mutants = <<>>
  /\ mutated = <<>>
  /\ report = <<>>

\* no run or test subcommand is executing
SchedIdle ==
  /\ command = "none"
  /\ comprehensive = FALSE
  /\ allowed_slugs = {}
  /\ cli_timeout = NoneNum
  /\ per_target_rule = FALSE
  /\ arg_ids = <<>>
  /\ run_no = 1
  /\ running = TRUE
  /\ disk = [p \in {"a.fc", "b.fc"} |-> <<>>]
  /\ pc = "idle"
  /\ ctx = "none"
  /\ exit_error = None
  /\ groups = {}
  /\ ids = <<>>
  /\ timeout = NoneNum
  /\ has_active_mutation = FALSE
  /\ current_target = <<>>
  /\ uncaught_high_sev_lines = {}
  /\ uncaught_med_sev_lines = {}
  /\ campaign_targets = <<>>
  /\ mutant_queue = <<>>
  /\ tm_target = <<>>
  /\ tm_mutant = <<>>
  /\ campaign_result = None
  /\ child = "none"
  /\ child_code = 0
  /\ clock = 0
  /\ iter_log = <<>>
  /\ found_log = <<>>
  /\ store_failed = FALSE
  /\ exit_clock = NoneNum
  /\ sleep_start = 0
  /\ cancel_inflight = <<>>
  /\ cancel_observed = <<>>
  /\ group_start = <<>>
  /\ baseline_exit = NoneNum
  /\ tm_error = <<>>

InitStore ==
  /\ targets = <<>>
  /\ mutants = <<>>
  /\ outcomes = <<>>
  /\ store_call = NoCall
  /\ NbIdle
  /\ SchedIdle
  /\ GenIdle
  /\ IoIdle

\* Target::load_targets on one file, lines 67-82: the file is registered
StoreAddTarget ==
  \E t \in TargetInputs :
    LET r == add_target(targets, t) IN
      /\ \A i \in 1..Len(r.rows) : r.rows[i].id <= MaxRowId
      /\ targets' = r.rows
      /\ store_call' = [op |-> "add_target", arg |-> t, ret |-> r.ret]
      /\ UNCHANGED <<mutants, outcomes, nbVars, schedVars, ioVars, genVars, report>>

StoreAddMutant ==
  \E m \in MutantInputs :
    LET r == add_mutant(mutants, m) IN
      /\ references_target(targets, m)
      /\ Len(r.rows) <= MaxMutantRows
      /\ \A i \in 1..Len(r.rows) : r.rows[i].id <= MaxRowId
      /\ mutants' = r.rows
      /\ store_call' = [op |-> "add_mutant", arg |-> m, ret |-> r.ret]
      /\ UNCHANGED <<targets, outcomes, nbVars, schedVars, ioVars, genVars, report>>

StoreAddOutcome ==
  \E o \in OutcomeInputs :
    LET r == add_outcome(outcomes, o) IN
      /\ references_mutant(mutants, o)
      /\ outcomes' = r.rows
      /\ store_call' = [op |-> "add_outcome", arg |-> o, ret |-> r.ret]
      /\ UNCHANGED <<targets, mutants, nbVars, schedVars, ioVars, genVars, report>>

\* execute_mutate, lines 35-46: every generated mutant is offered to the store
RECURSIVE AddAll(_, _)
AddAll(rows, generated) ==
  IF generated = <<>> THEN rows
  ELSE AddAll(add_mutant(rows, Head(generated)).rows, Tail(generated))

\* what an engine may generate for a stored target: lists of two mutants of it
GeneratedLists(target_id) ==
  LET Of == {m \in MutantInputs : m.target_id = target_id}
  IN  {<<a, b>> : a \in Of \cap {BaseMutant, [BaseMutant EXCEPT !.target_id = 2]}, b \in Of}

StoreMutate ==
  \E i \in 1..Len(targets) :
    \E g \in GeneratedLists(targets[i].id) :
      /\ Len(AddAll(mutants, g)) <= MaxMutantRows
      /\ \A k \in 1..Len(AddAll(mutants, g)) : AddAll(mutants, g)[k].id <= MaxRowId
      /\ mutants' = AddAll(mutants, g)
      /\ store_call' = [op |-> "mutate", arg |-> g, ret |-> NoneNum]
      /\ UNCHANGED <<targets, outcomes, nbVars, schedVars, ioVars, genVars, report>>

\* the files clean may find under the two paths
FileSystems == [{"a.fc", "b.fc"} -> {Missing, Unreadable, File(TextA), File(TextB)}]

\* what the store holds after a call that returned db
StoreBecomes(db) ==
  /\ targets' = db.targets
  /\ mutants' = db.mutants
  /\ outcomes' = db.outcomes

StoreRemoveTarget ==
  \E id \in 1..MaxRowId :
    /\ StoreBecomes(remove_target(Tables(targets, mutants, outcomes), id))
    /\ store_call' = [op |-> "remove_target", arg |-> id, ret |-> NoneNum]
    /\ UNCHANGED <<nbVars, schedVars, ioVars, genVars, report>>

\* execute_clean
StoreClean ==
  \E fs \in FileSystems :
    LET db == Tables(targets, mutants, outcomes)
        after == clean_loop(db, get_all_targets(targets), fs)
    IN  /\ StoreBecomes(after)
        /\ store_call' = [op |-> "clean", arg |-> None,
                          ret |-> Len(targets) - Len(after.targets)]
        /\ UNCHANGED <<nbVars, schedVars, ioVars, genVars, report>>

\* execute_purge: --target <path> or every target, the user answering y or n
StorePurge ==
  \E target \in {None, "a.fc", "b.fc"}, confirmed \in SUBSET {targets[i].id : i \in 1..Len(targets)} :
    LET db == Tables(targets, mutants, outcomes)
        id == get_target_id_by_path(targets, target)
        after == IF target = None THEN purge_loop(db, get_all_targets(targets), confirmed)
                 ELSE IF id # NoneNum THEN purge_target(db, id, confirmed)
                 ELSE db
    IN  /\ StoreBecomes(after)
        /\ store_call' = [op |-> "purge", arg |-> target,
                          ret |-> IF target # None /\ id = NoneNum THEN 1 ELSE 0]
        /\ UNCHANGED <<nbVars, schedVars, ioVars, genVars, report>>

\* execute_run, line 46, and the progress counts of the runner
StoreGetMutantsToTest ==
  /\ store_call' = [op |-> "get_mutants_to_test", arg |-> None,
                    ret |-> get_mutants_to_test(mutants, outcomes)]
  /\ UNCHANGED <<storeVars, nbVars, schedVars, ioVars, genVars, report>>

NextStore ==
  \/ StoreGetMutantsToTest
  \/ StoreAddTarget
  \/ StoreAddMutant
  \/ StoreAddOutcome
  \/ StoreMutate
  \/ StoreRemoveTarget
  \/ StoreClean
  \/ StorePurge

StoreSpec == InitStore /\ [][NextStore]_vars

(***************************************************************************)
(* TimeoutSpec: TestRunner::new_with_baseline for every baseline duration  *)
(* and every user timeout within the bounds.                               *)
(***************************************************************************)
UserTimeouts == {NoneNum} \cup (0..MaxUserTimeout)

InitTimeout ==
  /\ targets = <<>>
  /\ mutants = <<>>
  /\ outcomes = <<>>
  /\ store_call = NoCall
  /\ nb_pc = "new"
  /\ nb_user_timeout \in UserTimeouts
  /\ nb_runner_timeout = NoneNum
  /\ nb_duration_ms = 0
  /\ nb_result = NoResult
  /\ SchedIdle
  /\ GenIdle
  /\ IoIdle

\* lines 71-78: the runner of the baseline is built with timeout None
baseline_runner_timeout(user_timeout) == NoneNum

NbNewRunner ==
  /\ nb_pc = "new"
  /\ nb_runner_timeout' = baseline_runner_timeout(nb_user_timeout)
  /\ nb_pc' = "baseline"
  /\ UNCHANGED <<storeVars, store_call, schedVars, ioVars, genVars, report, nb_user_timeout, nb_duration_ms, nb_result>>

\* run_baseline_test, lines 128-150, with the exit status and the measured
\* duration of the child as inputs
NbRunBaseline ==
  /\ nb_pc = "baseline"
  /\ \E status \in {"Uncaught", "TestFail"}, ms \in 0..MaxBaselineMs :
       IF nb_runner_timeout # NoneNum
         THEN /\ nb_result' = [err |-> "Baseline tests should run with no timeout",
                               timeout |-> NoneNum, warn |-> FALSE]
              /\ nb_pc' = "done"
              /\ UNCHANGED nb_duration_ms
       ELSE IF status # "Uncaught"
         THEN /\ nb_result' = [err |-> "Baseline test failed", timeout |-> NoneNum, warn |-> FALSE]
              /\ nb_pc' = "done"
              /\ UNCHANGED nb_duration_ms
       ELSE /\ nb_duration_ms' = ms
            /\ nb_pc' = "decide"
            /\ UNCHANGED nb_result
  /\ UNCHANGED <<storeVars, store_call, schedVars, ioVars, genVars, report, nb_user_timeout, nb_runner_timeout>>

\* lines 82-125: the timeout is decided and the runner of the mutation runs built
NbDecide ==
  /\ nb_pc = "decide"
  /\ nb_result' = actual_timeout(nb_duration_ms, nb_user_timeout)
  /\ nb_runner_timeout' = actual_timeout(nb_duration_ms, nb_user_timeout).timeout
  /\ nb_pc' = "done"
  /\ UNCHANGED <<storeVars, store_call, schedVars, ioVars, genVars, report, nb_user_timeout, nb_duration_ms>>

NextTimeout == NbNewRunner \/ NbRunBaseline \/ NbDecide

TimeoutSpec == InitTimeout /\ [][NextTimeout]_vars


(***************************************************************************)
(* The scheduler: pure parts.                                              *)
(***************************************************************************)
\* mutations/common/kinds.rs: the slugs used here and their severities
Catalog == [ER |-> "High", CR |-> "Medium", BL |-> "Low"]

\* engine get_severity_by_slug: the severity, or None for an unknown slug
get_severity_by_slug(slug) ==
  IF slug \in DOMAIN Catalog THEN Catalog[slug] ELSE None

\* MutationSeverity::to_numeric
to_numeric(severity) ==
  CASE severity = "High" -> 0
    [] severity = "Medium" -> 1
    [] severity = "Low" -> 2

\* the sort key of run_mutations_for_target: unknown slugs sort as Low
SortKey(m) ==
  IF get_severity_by_slug(m.mutation_slug) = None
    THEN 2
    ELSE to_numeric(get_severity_by_slug(m.mutation_slug))

\* an insertion that puts a mutant before the ones of equal key
RECURSIVE InsertSorted_unstable(_, _)
InsertSorted_unstable(sorted, m) ==
  IF sorted = <<>> THEN <<m>>
  ELSE IF SortKey(Head(sorted)) < SortKey(m)
    THEN <<Head(sorted)>> \o InsertSorted_unstable(Tail(sorted), m)
    ELSE <<m>> \o sorted

\* Vec::sort_by with that key: a stable sort, here by insertion
RECURSIVE InsertSorted(_, _)
InsertSorted(sorted, m) ==
  IF sorted = <<>> THEN <<m>>
  ELSE IF SortKey(Head(sorted)) <= SortKey(m)
    THEN <<Head(sorted)>> \o InsertSorted(Tail(sorted), m)
    ELSE <<m>> \o sorted

RECURSIVE sort_by_severity(_)
sort_by_severity(ms) ==
  IF ms = <<>> THEN <<>>
  ELSE InsertSorted(sort_by_severity(SubSeq(ms, 1, Len(ms) - 1)), ms[Len(ms)])

\* Mutant::get_lines: first and last line (1-based) of the replaced text
get_lines(m) ==
  <<m.line_offset + 1, m.line_offset + 1 + CountOf(m.old_text, "\n")>>

LinesOf(m) == get_lines(m)[1]..get_lines(m)[2]

\* lines 405-416: the pruning decision for a mutant of numeric severity sev
\* should_skip with the Low case forgetting the lines of Medium severity
should_skip_high_only(sev, m, high_lines, med_lines) ==
  CASE sev = 1 -> \E line \in LinesOf(m) : line \in high_lines
    [] sev = 2 -> \E line \in LinesOf(m) : line \in high_lines
    [] OTHER -> FALSE

should_skip(sev, m, high_lines, med_lines) ==
  CASE sev = 1 -> \E line \in LinesOf(m) : line \in high_lines
    [] sev = 2 -> \E line \in LinesOf(m) : line \in high_lines \/ line \in med_lines
    [] OTHER -> FALSE

\* a splice that leaves the old text in place behind the new text
mutate_keeping_old_text(t, m) ==
  SubSeq(t.text, 1, m.byte_offset)
    \o m.new_text
    \o SubSeq(t.text, m.byte_offset + 1, Len(t.text))

\* Target::mutate: the text with the mutant applied
mutate(t, m) ==
  SubSeq(t.text, 1, m.byte_offset)
    \o m.new_text
    \o SubSeq(t.text, m.byte_offset + Len(m.old_text) + 1, Len(t.text))

\* restore that writes nothing
restore_nothing(files, t) == files

\* Target::restore: the files after the target's text was written back
restore(files, t) == [files EXCEPT ![t.path] = t.text]

\* TestRunner::cleanup: restores current_target when a mutation is active
cleanup(files, active, cur) ==
  IF active /\ cur # <<>>
    THEN [disk |-> restore(files, cur[1]), has_active_mutation |-> FALSE]
    ELSE [disk |-> files, has_active_mutation |-> active]

\* store.get_target: the row with that id, as <<row>>, or <<>>
get_target(rows, id) ==
  LET i == fetch_optional({k \in 1..Len(rows) : rows[k].id = id})
  IN  IF i # 0 THEN <<rows[i]>> ELSE <<>>

\* store.get_mutant
get_mutant(rows, id) ==
  LET i == fetch_optional({k \in 1..Len(rows) : rows[k].id = id})
  IN  IF i # 0 THEN <<rows[i]>> ELSE <<>>

\* ascending sequence of a finite set of numbers (sort_unstable + dedup)
RECURSIVE SortedSeq(_)
SortedSeq(S) ==
  IF S = {} THEN <<>>
  ELSE LET lo == CHOOSE x \in S : \A y \in S : x <= y
       IN  <<lo>> \o SortedSeq(S \ {lo})

\* execute_run, lines 46-61: the targets that have a mutant to test
run_targets(ts, ms, os) ==
  LET to_test == get_mutants_to_test(ms, os).mutants
      target_ids == SortedSeq({to_test[i].target_id : i \in 1..Len(to_test)})
  IN  [k \in 1..Len(target_ids) |-> get_target(ts, target_ids[k])[1]]

\* resolve_test_for_path_with_cli: command and timeout of a path; per_target
\* says whether the configuration has a per-target rule matching b.fc
resolve_test_for_path_with_cli(path, per_target, cli) ==
  [cmd |-> IF per_target /\ path = "b.fc" THEN "test_b" ELSE "test", timeout |-> cli]

\* a slip: one group for all the targets, under the key of the first one
run_groups_single(ts, per_target, cli) ==
  IF ts = <<>> THEN {}
  ELSE {[key |-> resolve_test_for_path_with_cli(ts[1].path, per_target, cli), items |-> ts]}

\* execute_run, lines 65-70: the targets grouped by (cmd, timeout)
run_groups(ts, per_target, cli) ==
  LET KeyOf(t) == resolve_test_for_path_with_cli(t.path, per_target, cli)
      keys == {KeyOf(ts[i]) : i \in 1..Len(ts)}
  IN  {[key |-> k, items |-> SelectSeq(ts, LAMBDA t : KeyOf(t) = k)] : k \in keys}

\* execute_test, lines 33-46: the ids grouped by the (cmd, timeout) of the
\* target of their mutant; ids without mutant or target are dropped
test_groups(id_list, ts, ms, per_target, cli) ==
  LET Known(id) == get_mutant(ms, id) # <<>>
                   /\ get_target(ts, get_mutant(ms, id)[1].target_id) # <<>>
      KeyOf(id) == resolve_test_for_path_with_cli(
                     get_target(ts, get_mutant(ms, id)[1].target_id)[1].path, per_target, cli)
      known == SelectSeq(id_list, Known)
      keys == {KeyOf(known[i]) : i \in 1..Len(known)}
  IN  {[key |-> k, items |-> SelectSeq(known, LAMBDA id : KeyOf(id) = k)] : k \in keys}

(***************************************************************************)
(* Spec: the `run` and `test` subcommands on a store that `mutate` filled  *)
(* with two targets and their mutants.                                     *)
(***************************************************************************)
ScenarioTargets ==
  add_target(add_target(<<>>, LoadedTarget("a.fc", TextA)).rows,
             LoadedTarget("b.fc", TextB)).rows

\* the mutants in the order of their generation; last_slug is the slug of the
\* last one ("ZZ" is a slug that the catalog does not have)
Generated(last_slug) ==
  << [id |-> 0, target_id |-> 1, byte_offset |-> 2, line_offset |-> 1,
      old_text |-> <<"y">>, new_text |-> <<"n">>, mutation_slug |-> "BL"],
     [id |-> 0, target_id |-> 1, byte_offset |-> 0, line_offset |-> 0,
      old_text |-> TextA, new_text |-> <<"E">>, mutation_slug |-> "ER"],
     [id |-> 0, target_id |-> 1, byte_offset |-> 2, line_offset |-> 1,
      old_text |-> <<"y">>, new_text |-> <<"/", "y", "/">>, mutation_slug |-> "CR"],
     [id |-> 0, target_id |-> 2, byte_offset |-> 2, line_offset |-> 1,
      old_text |-> <<"f">>, new_text |-> <<"t">>, mutation_slug |-> last_slug] >>

\* a later `mutate` of a.fc found one more mutant, of the severity of BL
GeneratedLater ==
  << [id |-> 0, target_id |-> 1, byte_offset |-> 2, line_offset |-> 1,
      old_text |-> <<"y">>, new_text |-> <<"m">>, mutation_slug |-> "BL"] >>

ScenarioMutants(last_slug, later) ==
  AddAll(AddAll(<<>>, Generated(last_slug)), IF later THEN GeneratedLater ELSE <<>>)

\* the outcomes left by earlier runs: none, two Timeouts and a TestFail, or
\* (PriorInterrupted) one Uncaught
PriorNone == <<>>

PriorSome ==
  add_outcome(
    add_outcome(
      add_outcome(<<>>, [mutant_id |-> 2, status |-> "Timeout", output |-> "out",
                         time |-> 0, duration_ms |-> 2000]).rows,
      [mutant_id |-> 1, status |-> "TestFail", output |-> "out",
       time |-> 0, duration_ms |-> 0]).rows,
    [mutant_id |-> 3, status |-> "Timeout", output |-> "out",
     time |-> 0, duration_ms |-> 2000]).rows

\* the outcome left by a `run` that found the High mutant 2 Uncaught and was
\* interrupted before the next mutant
PriorInterrupted ==
  add_outcome(<<>>, [mutant_id |-> 2, status |-> "Uncaught", output |-> "out",
                     time |-> 0, duration_ms |-> 1000]).rows

\* the baseline durations tried, in milliseconds
BaselineMsSamples == {1000, 1001}

\* Utc::now() of this process, later than the time of the prior outcomes
Now == 1

SkippedMessage == "Skipped due to uncaught higher severity mutation on the same line"

\* the command lines and stores tried: the command, --comprehensive, the
\* allow-list of slugs, the outcomes of earlier runs, the slug of the last
\* mutant, a mutant of a later `mutate`, --timeout, a per-target rule in the
\* configuration, --ids
Scenarios ==
  { [command |-> "run", comprehensive |-> FALSE, allowed_slugs |-> {},
     outcomes |-> PriorNone, last_slug |-> "BL", later |-> TRUE, cli_timeout |-> 1,
     per_target_rule |-> FALSE, arg_ids |-> <<>>],
    [command |-> "run", comprehensive |-> FALSE, allowed_slugs |-> {},
     outcomes |-> PriorSome, last_slug |-> "ZZ", later |-> FALSE, cli_timeout |-> 1,
     per_target_rule |-> TRUE, arg_ids |-> <<>>],
    [command |-> "run", comprehensive |-> TRUE, allowed_slugs |-> {"ER", "CR", "ZZ"},
     outcomes |-> PriorNone, last_slug |-> "ZZ", later |-> FALSE, cli_timeout |-> NoneNum,
     per_target_rule |-> TRUE, arg_ids |-> <<>>],
    [command |-> "run", comprehensive |-> FALSE, allowed_slugs |-> {},
     outcomes |-> PriorInterrupted, last_slug |-> "BL", later |-> FALSE, cli_timeout |-> 1,
     per_target_rule |-> FALSE, arg_ids |-> <<>>],
    [command |-> "test", comprehensive |-> FALSE, allowed_slugs |-> {},
     outcomes |-> PriorSome, last_slug |-> "ZZ", later |-> FALSE, cli_timeout |-> 1,
     per_target_rule |-> TRUE, arg_ids |-> <<2, 4, 1>>],
    [command |-> "test", comprehensive |-> FALSE, allowed_slugs |-> {},
     outcomes |-> PriorNone, last_slug |-> "BL", later |-> FALSE, cli_timeout |-> NoneNum,
     per_target_rule |-> FALSE, arg_ids |-> <<4, 9, 3>>] }

InitOf(scenarios) ==
  /\ targets = ScenarioTargets
  /\ store_call = NoCall
  /\ NbIdle
  /\ GenIdle
  /\ IoIdle
  /\ \E sc \in scenarios :
       /\ mutants = ScenarioMutants(sc.last_slug, sc.later)
       /\ outcomes = sc.outcomes
       /\ command = sc.command
       /\ comprehensive = sc.comprehensive
       /\ allowed_slugs = sc.allowed_slugs
       /\ cli_timeout = sc.cli_timeout
       /\ per_target_rule = sc.per_target_rule
       /\ arg_ids = sc.arg_ids
  /\ run_no = 1
  /\ running = TRUE
  /\ disk = [p \in {"a.fc", "b.fc"} |-> IF p = "a.fc" THEN TextA ELSE TextB]
  /\ pc = "start"
  /\ ctx = "none"
  /\ exit_error = None
  /\ groups = {}
  /\ ids = <<>>
  /\ timeout = NoneNum
  /\ has_active_mutation = FALSE
  /\ current_target = <<>>
  /\ uncaught_high_sev_lines = {}
  /\ uncaught_med_sev_lines = {}
  /\ campaign_targets = <<>>
  /\ mutant_queue = <<>>
  /\ tm_target = <<>>
  /\ tm_mutant = <<>>
  /\ campaign_result = None
  /\ child = "none"
  /\ child_code = 0
  /\ clock = 0
  /\ iter_log = <<>>
  /\ found_log = <<>>
  /\ store_failed = FALSE
  /\ exit_clock = NoneNum
  /\ sleep_start = 0
  /\ cancel_inflight = <<>>
  /\ cancel_observed = <<>>
  /\ group_start = <<>>
  /\ baseline_exit = NoneNum
  /\ tm_error = <<>>

Init == InitOf(Scenarios)

fixedVars == <<targets, mutants, store_call, nbVars, argVars, genVars, report, ioVars>>

\* main.rs, lines 85-88: the SIGINT handler clears the flag
CtrlC ==
  /\ pc \notin {"done", "idle", "printed"}
  /\ running
  /\ running' = FALSE
  /\ cancel_inflight' =
       IF ctx = "mutant" /\ pc \in {"poll", "wait"}
         THEN <<[mutant_id |-> tm_mutant[1].id,
                 before |-> get_outcome(outcomes, tm_mutant[1].id),
                 target |-> tm_target[1]]>>
         ELSE cancel_inflight
  /\ UNCHANGED <<fixedVars, outcomes, disk, pc, ctx, exit_error, runnerVars, loopVars,
                 childVars, iter_log, found_log, store_failed, exit_clock, sleep_start, cancel_observed, group_start, baseline_exit, tm_error>>

\* the test command ends by itself with some exit code: now, or, when the
\* poll loop has just slept, at some moment of that sleep
ChildExit ==
  /\ child = "running"
  /\ child' = "exited"
  /\ child_code' \in {0, 1}
  /\ exit_clock' \in (IF pc = "poll" THEN {sleep_start, clock} ELSE {clock})
  /\ UNCHANGED <<fixedVars, outcomes, running, disk, pc, ctx, exit_error, runnerVars,
                 loopVars, clock, iter_log, found_log, store_failed, sleep_start, cancel_inflight,
                 cancel_observed, group_start, baseline_exit, tm_error>>

\* execute_run lines 45-70, execute_test lines 18-46: the groups are built
ExecuteStart ==
  /\ pc = "start"
  /\ IF command = "run"
       THEN IF get_mutants_to_test(mutants, outcomes).mutants = <<>>
              THEN groups' = {} /\ pc' = "done" /\ UNCHANGED exit_error
              ELSE /\ groups' = run_groups(run_targets(targets, mutants, outcomes),
                                           per_target_rule, cli_timeout)
                   /\ pc' = "groups"
                   /\ UNCHANGED exit_error
       ELSE IF arg_ids = <<>>
              THEN groups' = {} /\ pc' = "done" /\ exit_error' = "No valid mutant IDs provided"
              ELSE /\ groups' = test_groups(arg_ids, targets, mutants, per_target_rule, cli_timeout)
                   /\ pc' = "groups"
                   /\ UNCHANGED exit_error
  /\ UNCHANGED <<fixedVars, outcomes, running, disk, ctx, runnerVars, ids, campaign_targets,
                 mutant_queue, tm_target, tm_mutant, campaign_result, childVars, histVars>>

\* the loop over the groups (run.rs 73-96, test.rs 49-67): the flag is checked,
\* then new_with_baseline builds the runner of the baseline (TestRunner::new)
GroupLoop ==
  /\ pc = "groups"
  /\ IF groups = {} \/ ~running
       THEN /\ pc' = "done"
            /\ UNCHANGED <<groups, ids, campaign_targets, ctx, runnerVars, group_start,
                           baseline_exit>>
       ELSE \E g \in groups :
              /\ groups' = groups \ {g}
              /\ ids' = (IF command = "test" THEN g.items ELSE <<>>)
              /\ campaign_targets' = (IF command = "run" THEN g.items ELSE <<>>)
              /\ timeout' = NoneNum
              /\ has_active_mutation' = FALSE
              /\ current_target' = <<>>
              /\ uncaught_high_sev_lines' = {}
              /\ uncaught_med_sev_lines' = {}
              /\ ctx' = "baseline"
              /\ pc' = "spawn"
              /\ group_start' = <<[outcomes |-> outcomes, disk |-> disk, group |-> g]>>
              /\ baseline_exit' = NoneNum
  /\ UNCHANGED <<fixedVars, outcomes, running, disk, exit_error, mutant_queue, tm_target,
                 tm_mutant, campaign_result, childVars, iter_log, found_log, store_failed, exit_clock, sleep_start, cancel_inflight,
                 cancel_observed, tm_error>>

\* run_baseline_test accepting any status of the baseline
baseline_passed_any(status) == TRUE

\* run_baseline_test, line 140: the baseline passed
baseline_passed(status) == status = "Uncaught"

\* new_with_baseline after run_and_wait returned rr for the baseline: lines
\* 81-125 with run_baseline_test 137-149; on success the runner of the
\* mutation runs is built and the caller goes on (run.rs 93, test.rs 69)
BaselineReturn(rr) ==
  /\ ctx' = "none"
  /\ UNCHANGED <<outcomes, disk, has_active_mutation, current_target,
                 uncaught_high_sev_lines, uncaught_med_sev_lines, ids, campaign_targets,
                 mutant_queue, tm_target, tm_mutant, campaign_result, iter_log, found_log, store_failed, tm_error>>
  /\ IF rr.kind = "err"
       THEN /\ exit_error' = rr.err
            /\ pc' = "done"
            /\ UNCHANGED <<timeout, baseline_exit>>
       ELSE /\ baseline_exit' = child_code
            /\ IF ~baseline_passed(rr.status)
                 THEN /\ exit_error' = "Baseline test failed"
                      /\ pc' = "done"
                      /\ UNCHANGED timeout
                 ELSE \E ms \in BaselineMsSamples :
                        LET r == actual_timeout(ms, cli_timeout) IN
                          IF r.err # None
                            THEN /\ exit_error' = r.err
                                 /\ pc' = "done"
                                 /\ UNCHANGED timeout
                            ELSE /\ timeout' = r.timeout
                                 /\ pc' = (IF command = "run" THEN "campaign" ELSE "ids")
                                 /\ UNCHANGED exit_error
  /\ exit_clock' = NoneNum
  /\ sleep_start' = 0

\* a slip: execute_test propagates the error of test_mutant
AfterTestMutantPropagating(err) ==
  IF err = None
    THEN pc' = (IF command = "run" THEN "mutants" ELSE "ids") /\ UNCHANGED campaign_result
    ELSE IF command = "run"
      THEN pc' = "campaign_end" /\ campaign_result' = err
      ELSE pc' = "done" /\ UNCHANGED campaign_result

\* where control goes when test_mutant returned err (None for Ok): `?` in
\* run_mutations_for_target and run_mutation_campaign_inner, the match of
\* execute_test
AfterTestMutant(err) ==
  IF command = "run"
    THEN IF err = None
           THEN pc' = "mutants" /\ UNCHANGED campaign_result
           ELSE pc' = "campaign_end" /\ campaign_result' = err
    ELSE pc' = "ids" /\ UNCHANGED campaign_result

\* test_mutant lines 550-565: the lines of an uncaught mutant of numeric
\* severity sev are added to the set of that severity
track_uncaught(lines, of_sev, status, sev, m) ==
  IF status = "Uncaught" /\ sev = of_sev THEN lines \cup LinesOf(m) ELSE lines

\* test_mutant without the special case of the interruption
interrupted_as_error(rr) == FALSE

\* test_mutant lines 522-524: run_and_wait returned the error of kind Interrupted
interrupted(rr) == rr.kind = "err" /\ rr.err = "Interrupted"

\* test_mutant after run_and_wait returned rr: lines 522-589
TestMutantReturn(rr) ==
  LET t == tm_target[1]
      m == tm_mutant[1]
      severity == get_severity_by_slug(m.mutation_slug)
  IN
  /\ ctx' = "none"
  /\ tm_mutant' = <<>>
  /\ tm_target' = (IF command = "run" THEN tm_target ELSE <<>>)
  /\ UNCHANGED <<exit_error, timeout, current_target, ids, campaign_targets, mutant_queue,
                 baseline_exit>>
  /\ IF interrupted(rr)
       THEN /\ disk' = restore(disk, t)
            /\ has_active_mutation' = FALSE
            /\ UNCHANGED <<outcomes, uncaught_high_sev_lines, uncaught_med_sev_lines,
                           iter_log, found_log, store_failed, tm_error>>
            /\ AfterTestMutant(None)
     ELSE IF rr.kind = "err"
       THEN /\ tm_error' = <<t>>
            /\ UNCHANGED <<outcomes, disk, has_active_mutation, uncaught_high_sev_lines,
                           uncaught_med_sev_lines, iter_log, found_log, store_failed>>
            /\ AfterTestMutant(rr.err)
     ELSE IF rr.status = "Uncaught" /\ severity = None
       THEN /\ tm_error' = <<t>>
            /\ UNCHANGED <<outcomes, disk, has_active_mutation, uncaught_high_sev_lines,
                           uncaught_med_sev_lines, iter_log, found_log, store_failed>>
            /\ AfterTestMutant("Mutation slug not found")
     ELSE /\ uncaught_high_sev_lines' =
               (IF severity = None THEN uncaught_high_sev_lines
                ELSE track_uncaught(uncaught_high_sev_lines, 0, rr.status,
                                    to_numeric(severity), m))
          /\ uncaught_med_sev_lines' =
               (IF severity = None THEN uncaught_med_sev_lines
                ELSE track_uncaught(uncaught_med_sev_lines, 1, rr.status,
                                    to_numeric(severity), m))
          /\ \E stored \in BOOLEAN :
               /\ outcomes' =
                    (IF stored
                       THEN add_outcome(outcomes,
                              [mutant_id |-> m.id, status |-> rr.status, output |-> "out",
                               time |-> Now, duration_ms |-> clock * 1000]).rows
                       ELSE outcomes)
               /\ iter_log' =
                    (IF stored /\ command = "run"
                       THEN Append(iter_log, [mutant_id |-> m.id, status |-> rr.status])
                       ELSE iter_log)
               /\ store_failed' = (store_failed \/ ~stored)
          /\ found_log' =
               (IF command = "run"
                  THEN Append(found_log, [mutant_id |-> m.id, status |-> rr.status])
                  ELSE found_log)
          /\ disk' = restore(disk, t)
          /\ has_active_mutation' = FALSE
          /\ UNCHANGED tm_error
          /\ AfterTestMutant(None)
  /\ exit_clock' = NoneNum
  /\ sleep_start' = 0

\* run_and_wait returns rr to run_baseline_test or to test_mutant
Return(rr) == IF ctx = "baseline" THEN BaselineReturn(rr) ELSE TestMutantReturn(rr)

Ok(status) == [kind |-> "ok", status |-> status, err |-> None]
Err(e) == [kind |-> "err", status |-> None, err |-> e]

\* run_and_wait lines 596-603: the child is spawned, or spawn fails
RunAndWaitSpawn ==
  /\ pc = "spawn"
  /\ \E spawned \in BOOLEAN :
       IF spawned
         THEN /\ child' = "running"
              /\ child_code' = 0
              /\ clock' = 0
              /\ exit_clock' = NoneNum
              /\ sleep_start' = 0
              /\ pc' = "poll"
              /\ UNCHANGED <<outcomes, disk, ctx, exit_error, runnerVars, ids,
                             campaign_targets, mutant_queue, tm_target, tm_mutant,
                             campaign_result, iter_log, found_log, store_failed, baseline_exit, tm_error>>
         ELSE /\ UNCHANGED childVars
              /\ Return(Err("spawn failed"))
  /\ UNCHANGED <<fixedVars, running, groups, cancel_inflight, cancel_observed, group_start>>

\* a slip: the timeout is returned as an error
on_timeout_error == Err("Timeout")

\* run_and_wait line 653: what the timeout check returns
on_timeout == Ok("Timeout")

\* run_and_wait lines 646-665: the timeout check, then the flag check
RunAndWaitPoll ==
  /\ pc = "poll"
  /\ IF timeout # NoneNum /\ clock >= timeout
       THEN /\ child' = "killed"
            /\ UNCHANGED <<child_code, clock, cancel_observed>>
            /\ Return(on_timeout)
     ELSE IF ~running
       THEN /\ child' = "killed"
            /\ UNCHANGED <<child_code, clock>>
            /\ cancel_observed' =
                 IF ctx = "mutant"
                   THEN <<[mutant_id |-> tm_mutant[1].id,
                           before |-> get_outcome(outcomes, tm_mutant[1].id),
                           target |-> tm_target[1]]>>
                   ELSE cancel_observed
            /\ Return(Err("Interrupted"))
     ELSE /\ pc' = "wait"
          /\ UNCHANGED <<childVars, cancel_observed, outcomes, disk, ctx, exit_error, runnerVars, ids,
                         campaign_targets, mutant_queue, tm_target, tm_mutant,
                         campaign_result, iter_log, found_log, store_failed, exit_clock, sleep_start, baseline_exit, tm_error>>
  /\ UNCHANGED <<fixedVars, running, groups, cancel_inflight, group_start>>

\* Status of an exit code, lines 713-717
status_of_exit(code) == IF code = 0 THEN "Uncaught" ELSE "TestFail"

\* run_and_wait lines 688-727: try_wait; a running child means a sleep of
\* 100 ms, during which the elapsed time may reach the next second
RunAndWaitTryWait ==
  /\ pc = "wait"
  /\ \/ /\ child = "exited"
        /\ child' = "reaped"
        /\ UNCHANGED <<child_code, clock>>
        /\ Return(Ok(status_of_exit(child_code)))
     \/ /\ child = "running"
        /\ pc' = "poll"
        /\ clock' \in {clock, IF clock < MaxClock THEN clock + 1 ELSE clock}
        /\ sleep_start' = clock
        /\ UNCHANGED <<child, child_code, outcomes, disk, ctx, exit_error, runnerVars, ids,
                       campaign_targets, mutant_queue, tm_target, tm_mutant,
                       campaign_result, iter_log, found_log, store_failed, exit_clock, baseline_exit, tm_error>>
     \/ /\ UNCHANGED childVars
        /\ Return(Err("wait failed"))
  /\ UNCHANGED <<fixedVars, running, groups, cancel_inflight, cancel_observed, group_start>>

\* test_mutant lines 512-520: the mutant is applied to the file of t and the
\* test command is about to be spawned
TestMutantBegin(t, m) ==
  /\ has_active_mutation' = TRUE
  /\ disk' = [disk EXCEPT ![t.path] = mutate(t, m)]
  /\ tm_target' = <<t>>
  /\ tm_mutant' = <<m>>
  /\ ctx' = "mutant"
  /\ pc' = "spawn"

\* the check of lines 378-389 taking every stored outcome as final
already_tested_any(existing) == existing # <<>>

\* the check of lines 378-389 sending Skipped outcomes to be tested again
already_tested_unless_skipped(existing) ==
  existing # <<>> /\ existing[1].status \notin {"Timeout", "Skipped"}

\* the check of lines 378-389 never finding an outcome
already_tested_never(existing) == FALSE

\* run_mutations_for_target lines 378-389: the mutant has an outcome that is
\* not a Timeout and is not tested again
already_tested(existing) == existing # <<>> /\ existing[1].status # "Timeout"

\* a slip: the lines found uncaught in the previous target are kept
clear_nothing(lines) == lines

\* run_mutations_for_target lines 292-293: HashSet::clear
clear(lines) == {}

\* a slip: the skipped mutant is charged the time of the last test run
skipped_outcome_timed(mutant, now) ==
  [mutant_id |-> mutant.id, status |-> "Skipped", output |-> SkippedMessage, time |-> now,
   duration_ms |-> 1000]

\* run_mutations_for_target lines 425-434: the outcome of a pruned mutant
skipped_outcome(mutant, now) ==
  [mutant_id |-> mutant.id, status |-> "Skipped", output |-> SkippedMessage, time |-> now,
   duration_ms |-> 0]

\* a slip: the severity rule is applied whatever the mode
pruning_enabled_always(comprehensive_mode) == TRUE

\* run_mutations_for_target line 393: the severity rule is applied unless the
\* runner is in comprehensive mode
pruning_enabled(comprehensive_mode) == ~comprehensive_mode

\* Drop for TestRunner
drop(files, active, cur) ==
  IF active THEN cleanup(files, active, cur)
  ELSE [disk |-> files, has_active_mutation |-> active]

\* run_mutation_campaign_inner lines 260-277 with the prologue of
\* run_mutations_for_target, lines 290-315: the next target, its mutants sorted
CampaignLoop ==
  /\ pc = "campaign"
  /\ IF campaign_targets = <<>> \/ ~running
       THEN /\ pc' = "campaign_end"
            /\ campaign_result' = None
            /\ UNCHANGED <<campaign_targets, current_target, uncaught_high_sev_lines,
                           uncaught_med_sev_lines, mutant_queue, tm_target, iter_log, found_log, store_failed, exit_clock, sleep_start>>
       ELSE LET t == Head(campaign_targets) IN
            /\ campaign_targets' = Tail(campaign_targets)
            /\ current_target' = <<t>>
            /\ uncaught_high_sev_lines' = clear(uncaught_high_sev_lines)
            /\ uncaught_med_sev_lines' = clear(uncaught_med_sev_lines)
            /\ iter_log' = <<>>
            /\ UNCHANGED <<found_log, exit_clock, sleep_start>>
            /\ UNCHANGED campaign_result
            /\ \E got \in BOOLEAN :
                 /\ store_failed' = (store_failed \/ ~got)
                 /\ IF got
                      THEN /\ mutant_queue' = sort_by_severity(get_mutants(mutants, t.id))
                           /\ tm_target' = <<t>>
                           /\ pc' = "mutants"
                      ELSE /\ mutant_queue' = <<>>
                           /\ tm_target' = <<>>
                           /\ pc' = "campaign"
  /\ UNCHANGED <<fixedVars, outcomes, running, disk, ctx, exit_error, timeout,
                 has_active_mutation, groups, ids, tm_mutant, childVars, cancel_inflight,
                 cancel_observed,
                 group_start, baseline_exit, tm_error>>

\* a slip: the --mutations list is not consulted
filtered_out_never(slugs, slug) == FALSE

\* run_mutations_for_target lines 452-456: a list is given, is not empty and
\* does not hold the slug
filtered_out(slugs, slug) == slugs # {} /\ slug \notin slugs

\* a slip: the loop over the mutants never looks at the flag
stop_never(flag) == FALSE

\* run_mutations_for_target line 373: the flag is read at the top of the loop
stop_requested(flag) == ~flag

\* run_mutations_for_target lines 372-503: one iteration of the loop over the
\* sorted mutants, up to the write of the mutated file, or the end of the loop
MutantLoop ==
  /\ pc = "mutants"
  /\ IF mutant_queue = <<>> \/ stop_requested(running)
       THEN /\ current_target' = <<>>
            /\ tm_target' = <<>>
            /\ pc' = "campaign"
            /\ UNCHANGED <<outcomes, disk, ctx, has_active_mutation, mutant_queue, tm_mutant,
                           campaign_result, iter_log, found_log, store_failed, exit_clock, sleep_start>>
       ELSE LET m == Head(mutant_queue)
                t == tm_target[1]
                existing == get_outcome(outcomes, m.id)
                severity == get_severity_by_slug(m.mutation_slug)
            IN
            /\ mutant_queue' = Tail(mutant_queue)
            /\ UNCHANGED current_target
            /\ IF already_tested(existing)
                 THEN UNCHANGED <<outcomes, disk, pc, ctx, has_active_mutation, tm_target,
                                  tm_mutant, campaign_result, iter_log, found_log, store_failed, exit_clock, sleep_start>>
               ELSE IF pruning_enabled(comprehensive) /\ severity = None
                 THEN /\ pc' = "campaign_end"
                      /\ campaign_result' = "Mutation slug not found"
                      /\ UNCHANGED <<outcomes, disk, ctx, has_active_mutation, tm_target,
                                     tm_mutant, iter_log, found_log, store_failed, exit_clock, sleep_start>>
               ELSE IF pruning_enabled(comprehensive)
                       /\ should_skip(to_numeric(severity), m, uncaught_high_sev_lines,
                                      uncaught_med_sev_lines)
                 THEN /\ \E stored \in BOOLEAN :
                           /\ outcomes' =
                                (IF stored
                                   THEN add_outcome(outcomes, skipped_outcome(m, Now)).rows
                                   ELSE outcomes)
                           /\ iter_log' =
                                (IF stored
                                   THEN Append(iter_log, [mutant_id |-> m.id,
                                                          status |-> "Skipped"])
                                   ELSE iter_log)
                           /\ store_failed' = (store_failed \/ ~stored)
                      /\ UNCHANGED <<found_log, exit_clock, sleep_start, disk, pc, ctx, has_active_mutation, tm_target, tm_mutant,
                                     campaign_result>>
               ELSE IF filtered_out(allowed_slugs, m.mutation_slug)
                 THEN UNCHANGED <<outcomes, disk, pc, ctx, has_active_mutation, tm_target,
                                  tm_mutant, campaign_result, iter_log, found_log, store_failed, exit_clock, sleep_start>>
               ELSE /\ TestMutantBegin(t, m)
                    /\ UNCHANGED <<outcomes, campaign_result, iter_log, found_log, store_failed, exit_clock, sleep_start>>
  /\ UNCHANGED <<fixedVars, running, exit_error, timeout, uncaught_high_sev_lines,
                 uncaught_med_sev_lines, groups, ids, campaign_targets, childVars,
                 cancel_inflight, cancel_observed, group_start, baseline_exit, tm_error>>

\* run_mutation_campaign lines 232-251: cleanup when a mutation is active, the
\* result is returned; execute_run lines 93-96: an error ends the command; the
\* runner is dropped
CampaignEnd ==
  /\ pc = "campaign_end"
  /\ LET c == cleanup(disk, has_active_mutation, current_target)
         d == drop(c.disk, c.has_active_mutation, current_target)
     IN  /\ disk' = d.disk
         /\ has_active_mutation' = d.has_active_mutation
  /\ IF campaign_result # None
       THEN exit_error' = campaign_result /\ pc' = "done"
       ELSE UNCHANGED exit_error /\ pc' = "groups"
  /\ UNCHANGED <<fixedVars, outcomes, running, ctx, timeout, current_target,
                 uncaught_high_sev_lines, uncaught_med_sev_lines, loopVars, childVars,
                 histVars>>

\* execute_test lines 69-89: one iteration of the loop over the ids of the
\* group, up to the write of the mutated file, or the end of the loop, where
\* the runner is dropped
IdsLoop ==
  /\ pc = "ids"
  /\ IF ids = <<>> \/ ~running
       THEN LET d == drop(disk, has_active_mutation, current_target) IN
            /\ disk' = d.disk
            /\ has_active_mutation' = d.has_active_mutation
            /\ pc' = "groups"
            /\ UNCHANGED <<ids, ctx, tm_target, tm_mutant>>
       ELSE LET id == Head(ids)
                found == get_mutant(mutants, id)
                owner == IF found = <<>> THEN <<>>
                         ELSE get_target(targets, found[1].target_id)
            IN
            /\ ids' = Tail(ids)
            /\ \E fetched \in BOOLEAN :
                 IF fetched /\ found # <<>> /\ owner # <<>>
                   THEN TestMutantBegin(owner[1], found[1])
                   ELSE UNCHANGED <<disk, has_active_mutation, pc, ctx, tm_target, tm_mutant>>
  /\ UNCHANGED <<fixedVars, outcomes, running, exit_error, timeout, current_target,
                 uncaught_high_sev_lines, uncaught_med_sev_lines, groups, campaign_targets,
                 mutant_queue, campaign_result, childVars, histVars>>

(***************************************************************************)
(* cmds/print/outcomes.rs: `print results` on the store the command left.  *)
(***************************************************************************)
NewCounter == [eligible |-> 0, caught |-> 0]

\* record that leaves out BuildFail only
record_but_buildfail(counter, status) ==
  IF status # "BuildFail"
    THEN [eligible |-> counter.eligible + 1,
          caught |-> counter.caught + (IF status = "TestFail" THEN 1 ELSE 0)]
    ELSE counter

\* OutcomeCounter::record
record(counter, status) ==
  IF status # "Skipped" /\ status # "BuildFail"
    THEN [eligible |-> counter.eligible + 1,
          caught |-> counter.caught + (IF status = "TestFail" THEN 1 ELSE 0)]
    ELSE counter

\* sort_by_key(|m| m.byte_offset), a stable sort
RECURSIVE InsertByOffset(_, _)
InsertByOffset(sorted, m) ==
  IF sorted = <<>> THEN <<m>>
  ELSE IF m.byte_offset < Head(sorted).byte_offset THEN <<m>> \o sorted
  ELSE <<Head(sorted)>> \o InsertByOffset(Tail(sorted), m)

RECURSIVE sort_by_byte_offset(_)
sort_by_byte_offset(ms) ==
  IF ms = <<>> THEN <<>>
  ELSE InsertByOffset(sort_by_byte_offset(SubSeq(ms, 1, Len(ms) - 1)), ms[Len(ms)])

\* the bucket of a mutant: its severity, Low for a slug the catalog lacks
severity_bucket(m) ==
  IF get_severity_by_slug(m.mutation_slug) = None
    THEN "Low"
    ELSE get_severity_by_slug(m.mutation_slug)

\* lines 119-144: the tallies after the loop over the mutants of a target
RECURSIVE tally(_, _, _)
tally(ms, os, acc) ==
  IF ms = <<>> THEN acc
  ELSE LET outcome == get_outcome(os, Head(ms).id)
           bucket == severity_bucket(Head(ms))
       IN  tally(Tail(ms), os,
                 IF outcome = <<>> THEN acc
                 ELSE [acc EXCEPT !.overall = record(@, outcome[1].status),
                                  ![bucket] = record(@, outcome[1].status)])

\* lines 104-176: one summary for each target that has mutants
RECURSIVE summaries(_, _, _)
summaries(ts, ms, os) ==
  IF ts = <<>> THEN <<>>
  ELSE LET of_target == sort_by_byte_offset(get_mutants(ms, Head(ts).id))
           zero == [overall |-> NewCounter, High |-> NewCounter,
                    Medium |-> NewCounter, Low |-> NewCounter]
       IN  (IF of_target = <<>> THEN <<>>
            ELSE <<[target_id |-> Head(ts).id, tallies |-> tally(of_target, os, zero)]>>)
           \o summaries(Tail(ts), ms, os)

\* execute without --target and --id, after the run or test command ended
PrintResults ==
  /\ pc = "done"
  /\ pc' = "printed"
  /\ report' = summaries(targets, mutants, outcomes)
  /\ UNCHANGED <<targets, mutants, store_call, nbVars, argVars, genVars, ioVars, outcomes, running,
                 disk, ctx, exit_error, runnerVars, loopVars, childVars, histVars>>

Next ==
  \/ CtrlC
  \/ ChildExit
  \/ ExecuteStart
  \/ GroupLoop
  \/ RunAndWaitSpawn
  \/ RunAndWaitPoll
  \/ RunAndWaitTryWait
  \/ CampaignLoop
  \/ MutantLoop
  \/ CampaignEnd
  \/ IdsLoop
  \/ PrintResults

Spec == Init /\ [][Next]_vars

\* the same `run` is started again on the store and the files that a first
\* one left, after it ended without cancellation and without error and left
\* no Timeout outcome: a new process, a new flag, new runners
\* a new process of the same program on the store and the files the previous
\* one left: main.rs builds a fresh TestRunner, the flag is set again
StartAgain(no, compr) ==
  /\ run_no' = no
  /\ comprehensive' = compr
  /\ pc' = "start"
  /\ ctx' = "none"
  /\ groups' = {}
  /\ ids' = <<>>
  /\ timeout' = NoneNum
  /\ has_active_mutation' = FALSE
  /\ current_target' = <<>>
  /\ uncaught_high_sev_lines' = {}
  /\ uncaught_med_sev_lines' = {}
  /\ campaign_targets' = <<>>
  /\ mutant_queue' = <<>>
  /\ tm_target' = <<>>
  /\ tm_mutant' = <<>>
  /\ campaign_result' = None
  /\ child' = "none"
  /\ child_code' = 0
  /\ clock' = 0
  /\ iter_log' = <<>>
  /\ found_log' = <<>>
  /\ exit_clock' = NoneNum
  /\ sleep_start' = 0
  /\ cancel_inflight' = <<>>
  /\ cancel_observed' = <<>>
  /\ group_start' = <<>>
  /\ baseline_exit' = NoneNum
  /\ tm_error' = <<>>
  /\ exit_error' = None
  /\ running' = TRUE
  /\ UNCHANGED <<targets, mutants, outcomes, store_call, nbVars, genVars, ioVars, report, command,
                 allowed_slugs, cli_timeout, per_target_rule, arg_ids, disk, store_failed>>

\* the same `run` command line given a second time, after a campaign that ran
\* to its end without cancellation, without error and without a Timeout
Rerun ==
  /\ command = "run"
  /\ run_no = 1
  /\ pc = "done"
  /\ running
  /\ exit_error = None
  /\ \A k \in 1..Len(outcomes) : outcomes[k].status # "Timeout"
  /\ StartAgain(2, comprehensive)

\* `run --comprehensive` given after a `run` without it that recorded at
\* least one Skipped outcome, however that run ended
RerunComprehensive ==
  /\ command = "run"
  /\ run_no = 1
  /\ pc = "done"
  /\ ~comprehensive
  /\ \E k \in 1..Len(outcomes) : outcomes[k].status = "Skipped"
  /\ StartAgain(3, TRUE)

NextRerun == Next \/ Rerun \/ RerunComprehensive

RerunSpec == Init /\ [][NextRerun]_vars

\* the steps of the process of `run` or `test`: the task is polled until it
\* ends (the sleeps of run_and_wait are 100 ms long), while SIGINT, the end of
\* the test command and a later `print results` are up to the environment
Program ==
  \/ ExecuteStart
  \/ GroupLoop
  \/ RunAndWaitSpawn
  \/ RunAndWaitPoll
  \/ RunAndWaitTryWait
  \/ CampaignLoop
  \/ MutantLoop
  \/ CampaignEnd
  \/ IdsLoop

\* the command lines run on a store that already holds outcomes
FairScenarios == {sc \in Scenarios : sc.outcomes # PriorNone}

FairInit == InitOf(FairScenarios)

FairSpec == FairInit /\ [][Next]_vars /\ WF_vars(Program)

(***************************************************************************)
(* Mutation generation (mutations/common/utils.rs, patterns.rs and the     *)
(* engines of the two dialects).  The parser is tree-sitter: its concrete  *)
(* syntax tree is a sequence of nodes in the order of the traversal        *)
(* (pre-order), each with its kind, its byte span, its parent (0 for the   *)
(* root) and the field of the parent it fills.  Byte offsets count from 0  *)
(* as in the code; a byte that is not ASCII is written as its two hex      *)
(* digits.                                                                 *)
(***************************************************************************)
Named(kind, start_byte, end_byte, parent, field) ==
  [kind |-> kind, start_byte |-> start_byte, end_byte |-> end_byte, parent |-> parent,
   field |-> field, named |-> TRUE]

\* an anonymous node: a keyword, an operator or a punctuation mark
Token(kind, start_byte, end_byte, parent) ==
  [kind |-> kind, start_byte |-> start_byte, end_byte |-> end_byte, parent |-> parent,
   field |-> None, named |-> FALSE]

\* ---- str methods on byte sequences
\* str::contains
contains(s, pat) ==
  \E i \in 1..(Len(s) - Len(pat) + 1) : SubSeq(s, i, i + Len(pat) - 1) = pat

\* str::replace: every occurrence from the left, without overlap
RECURSIVE replace(_, _, _)
replace(s, from, to) ==
  IF Len(s) < Len(from) THEN s
  ELSE IF SubSeq(s, 1, Len(from)) = from
    THEN to \o replace(SubSeq(s, Len(from) + 1, Len(s)), from, to)
  ELSE <<Head(s)>> \o replace(Tail(s), from, to)

WhiteSpace == {" ", "\n", "\t", "\r"}

RECURSIVE trim_start(_)
trim_start(s) ==
  IF s # <<>> /\ Head(s) \in WhiteSpace THEN trim_start(Tail(s)) ELSE s

RECURSIVE trim_end(_)
trim_end(s) ==
  IF s # <<>> /\ s[Len(s)] \in WhiteSpace THEN trim_end(SubSeq(s, 1, Len(s) - 1)) ELSE s

\* Vec::extend over the results of the visits, in the order of the visits
RECURSIVE Flatten(_)
Flatten(ss) ==
  IF ss = <<>> THEN <<>>
  ELSE IF Len(ss) = 1 THEN ss[1]
  ELSE Flatten(SubSeq(ss, 1, Len(ss) \div 2)) \o Flatten(SubSeq(ss, Len(ss) \div 2 + 1, Len(ss)))

\* ---- tree-sitter's Node methods
\* Node::children: the indices of the children of node i, in order
children(tree, i) ==
  LET IsChild(j) == tree[j].parent = i
  IN  SelectSeq([j \in 1..Len(tree) |-> j], IsChild)

\* Node::child_by_field_name: the first child in that field, 0 for None
child_by_field_name(tree, i, field_name) ==
  LET InField(j) == tree[j].field = field_name
      found == SelectSeq(children(tree, i), InField)
  IN  IF found = <<>> THEN 0 ELSE found[1]

\* ---- mutations/common/utils.rs
node_text(node, source) == SubSeq(source, node.start_byte + 1, node.end_byte)

RECURSIVE is_in_comment(_, _)
is_in_comment(tree, i) ==
  \/ tree[i].kind = "comment"
  \/ /\ tree[i].parent # 0
     /\ is_in_comment(tree, tree[i].parent)

\* bytes().take(n): the first n bytes, all of them if there are fewer
take(bytes, n) == SubSeq(bytes, 1, IF n < Len(bytes) THEN n ELSE Len(bytes))

\* a line count that starts at 1
calculate_line_offset_from_one(source, byte_offset) ==
  LET IsNewline(b) == b = "\n"
  IN  1 + Len(SelectSeq(take(source, byte_offset), IsNewline))

calculate_line_offset(source, byte_offset) ==
  LET IsNewline(b) == b = "\n"
  IN  Len(SelectSeq(take(source, byte_offset), IsNewline))

create_mutant(target, node, source, slug, new_text) ==
  [id |-> 0, target_id |-> target.id, mutation_slug |-> slug,
   byte_offset |-> node.start_byte,
   line_offset |-> calculate_line_offset(source, node.start_byte),
   old_text |-> node_text(node, source), new_text |-> new_text]

\* ---- mutations/common/patterns.rs
is_punctuation_kind(kind) == kind \in {"(", ")", ","}

is_keyword_kind(kind, keywords) == kind \in keywords

RECURSIVE has_ancestor_with_kind(_, _, _)
has_ancestor_with_kind(tree, i, kinds) ==
  /\ tree[i].parent # 0
  /\ \/ tree[tree[i].parent].kind \in kinds
     \/ has_ancestor_with_kind(tree, tree[i].parent, kinds)

\* the first named child that is neither an error, a keyword nor punctuation
first_named_child_after_keyword(tree, i, keywords) ==
  LET Eligible(j) ==
        /\ tree[j].kind # "ERROR"
        /\ ~is_keyword_kind(tree[j].kind, keywords)
        /\ ~is_punctuation_kind(tree[j].kind)
        /\ tree[j].named
      found == SelectSeq(children(tree, i), Eligible)
  IN  IF found = <<>> THEN 0 ELSE found[1]

replace_field_for_nodes_of_kind(target, tree, source, node_kind, field_name, slug, new_text) ==
  LET visit(i) ==
        LET field_node == child_by_field_name(tree, i, field_name)
        IN  IF tree[i].kind = node_kind /\ ~is_in_comment(tree, i) /\ field_node # 0
              THEN <<create_mutant(target, tree[field_node], source, slug, new_text)>>
              ELSE <<>>
  IN  Flatten([i \in 1..Len(tree) |-> visit(i)])

\* should_replace is the engines' closure: the text lacks the string `unless`
replace_entire_nodes_of_kinds_filtered(target, tree, source, node_kinds, slug, replacement_text, unless) ==
  LET visit(i) ==
        IF /\ tree[i].kind \in node_kinds
           /\ ~is_in_comment(tree, i)
           /\ ~has_ancestor_with_kind(tree, i, node_kinds)
           /\ ~contains(node_text(tree[i], source), unless)
          THEN <<create_mutant(target, tree[i], source, slug, replacement_text)>>
          ELSE <<>>
  IN  Flatten([i \in 1..Len(tree) |-> visit(i)])

\* a slip: only the first two arguments are swapped
swap_first_two_arguments_for_kinds(target, tree, source, node_kinds, args_field_name, slug) ==
  LET visit(i) ==
        LET args_node == child_by_field_name(tree, i, args_field_name)
            IsArg(j) == tree[j].kind \notin {"(", ")", ","}
            args == IF args_node = 0 THEN <<>> ELSE SelectSeq(children(tree, args_node), IsArg)
            a == tree[args[1]]
            b == tree[args[2]]
        IN  IF tree[i].kind \in node_kinds /\ ~is_in_comment(tree, i) /\ args_node # 0
               /\ Len(args) >= 2
              THEN <<[id |-> 0, target_id |-> target.id, mutation_slug |-> slug,
                      byte_offset |-> a.start_byte,
                      line_offset |-> calculate_line_offset(source, a.start_byte),
                      old_text |-> SubSeq(source, a.start_byte + 1, b.end_byte),
                      new_text |-> node_text(b, source) \o <<",", " ">> \o node_text(a, source)]>>
              ELSE <<>>
  IN  Flatten([i \in 1..Len(tree) |-> visit(i)])

swap_adjacent_arguments_for_kinds(target, tree, source, node_kinds, args_field_name, slug) ==
  LET visit(i) ==
        LET args_node == child_by_field_name(tree, i, args_field_name)
            IsArg(j) == tree[j].kind \notin {"(", ")", ","}
            args == IF args_node = 0 THEN <<>> ELSE SelectSeq(children(tree, args_node), IsArg)
            pair(k) ==
              LET a == tree[args[k]]
                  b == tree[args[k + 1]]
              IN  [id |-> 0, target_id |-> target.id, mutation_slug |-> slug,
                   byte_offset |-> a.start_byte,
                   line_offset |-> calculate_line_offset(source, a.start_byte),
                   old_text |-> SubSeq(source, a.start_byte + 1, b.end_byte),
                   new_text |-> node_text(b, source) \o <<",", " ">> \o node_text(a, source)]
        IN  IF tree[i].kind \in node_kinds /\ ~is_in_comment(tree, i) /\ args_node # 0
               /\ Len(args) >= 2
              THEN [k \in 1..(Len(args) - 1) |-> pair(k)]
              ELSE <<>>
  IN  Flatten([i \in 1..Len(tree) |-> visit(i)])

flip_boolean_literals_by_kind(target, tree, source, boolean_node_kind, slug) ==
  LET visit(i) ==
        IF tree[i].kind = boolean_node_kind /\ ~is_in_comment(tree, i)
          THEN <<create_mutant(target, tree[i], source, slug,
                               IF node_text(tree[i], source) = <<"t", "r", "u", "e">>
                                 THEN <<"f", "a", "l", "s", "e">>
                                 ELSE <<"t", "r", "u", "e">>)>>
          ELSE <<>>
  IN  Flatten([i \in 1..Len(tree) |-> visit(i)])

\* operators is the list of the operators, in the order of the slice
shuffle_operators_in_expressions(target, tree, source, expr_node_kinds, operators, slug) ==
  LET of_child(j) ==
        LET token == node_text(tree[j], source)
            Other(replacement) == replacement # token
            swap(replacement) ==
              [id |-> 0, target_id |-> target.id, mutation_slug |-> slug,
               byte_offset |-> tree[j].start_byte,
               line_offset |-> calculate_line_offset(source, tree[j].start_byte),
               old_text |-> token, new_text |-> replacement]
            others == SelectSeq(operators, Other)
        IN  IF token \in Range(operators)
              THEN [k \in 1..Len(others) |-> swap(others[k])]
              ELSE <<>>
      visit(i) ==
        IF tree[i].kind \in expr_node_kinds /\ ~is_in_comment(tree, i)
          THEN Flatten([k \in 1..Len(children(tree, i)) |-> of_child(children(tree, i)[k])])
          ELSE <<>>
  IN  Flatten([i \in 1..Len(tree) |-> visit(i)])

wrap_nodes_of_kinds_with_wrappers(target, tree, source, node_kinds, slug, prefix, suffix) ==
  LET visit(i) ==
        IF /\ tree[i].kind \in node_kinds
           /\ ~is_in_comment(tree, i)
           /\ ~has_ancestor_with_kind(tree, i, node_kinds)
          THEN <<create_mutant(target, tree[i], source, slug,
                               prefix \o node_text(tree[i], source) \o suffix)>>
          ELSE <<>>
  IN  Flatten([i \in 1..Len(tree) |-> visit(i)])

replace_condition_for_nodes_of_kind(target, tree, source, node_kind, condition_field_name, keyword_kinds, slug, replacement) ==
  LET new_text(old_text) ==
        LET needs_parens ==
              /\ trim_start(old_text) # <<>> /\ Head(trim_start(old_text)) = "("
              /\ trim_end(old_text) # <<>> /\ trim_end(old_text)[Len(trim_end(old_text))] = ")"
        IN  IF needs_parens THEN <<"(">> \o replacement \o <<")">> ELSE replacement
      replaced(j) ==
        <<create_mutant(target, tree[j], source, slug, new_text(node_text(tree[j], source)))>>
      visit(i) ==
        LET field_node == child_by_field_name(tree, i, condition_field_name)
            cond == first_named_child_after_keyword(tree, i, keyword_kinds)
        IN  IF tree[i].kind = node_kind /\ ~is_in_comment(tree, i)
              THEN IF field_node # 0 THEN replaced(field_node)
                   ELSE IF cond # 0 /\ tree[cond].kind # ";" /\ tree[cond].kind # "{"
                     THEN replaced(cond)
                   ELSE <<>>
              ELSE <<>>
  IN  Flatten([i \in 1..Len(tree) |-> visit(i)])

replace_repeat_count_for_nodes_of_kind(target, tree, source, node_kind, count_field_name, keyword_kinds, slug, replacement) ==
  replace_condition_for_nodes_of_kind(target, tree, source, node_kind, count_field_name,
                                      keyword_kinds, slug, replacement)

\* callee_matches is the engines' closure: the callee's text contains `callee`
replace_first_argument_for_calls_matching(target, tree, source, call_node_kinds, args_field_name, alt_args_kinds, slug, callee, replacement) ==
  LET visit(i) ==
        LET kids == children(tree, i)
            IsArgs(j) == tree[j].kind \in alt_args_kinds \/ tree[j].kind = args_field_name
            by_kind == SelectSeq(kids, IsArgs)
            args_node ==
              IF child_by_field_name(tree, i, args_field_name) # 0
                THEN child_by_field_name(tree, i, args_field_name)
              ELSE IF by_kind # <<>> THEN by_kind[1]
              ELSE 0
            NotPunctuation(j) == ~is_punctuation_kind(tree[j].kind)
            first == IF args_node = 0 THEN <<>>
                     ELSE SelectSeq(children(tree, args_node), NotPunctuation)
        IN  IF /\ tree[i].kind \in call_node_kinds
               /\ ~is_in_comment(tree, i)
               /\ kids # <<>>
               /\ contains(node_text(tree[kids[1]], source), callee)
               /\ first # <<>>
              THEN <<create_mutant(target, tree[first[1]], source, slug, replacement)>>
              ELSE <<>>
  IN  Flatten([i \in 1..Len(tree) |-> visit(i)])

swap_loop_control_statements(target, tree, source, break_kind, continue_kind, slug) ==
  LET break == <<"b", "r", "e", "a", "k">>
      continue == <<"c", "o", "n", "t", "i", "n", "u", "e">>
      visit(i) ==
        IF ~is_in_comment(tree, i) /\ tree[i].kind \in {break_kind, continue_kind}
          THEN <<create_mutant(target, tree[i], source, slug,
                               IF tree[i].kind = break_kind
                                 THEN replace(node_text(tree[i], source), break, continue)
                                 ELSE replace(node_text(tree[i], source), continue, break))>>
          ELSE <<>>
  IN  Flatten([i \in 1..Len(tree) |-> visit(i)])

(***************************************************************************)
(* The catalogs (mutations/*/kinds.rs) and the engines of the two dialects.*)
(***************************************************************************)
COMMON_MUTATIONS ==
  << [slug |-> "ER", severity |-> "High"],
     [slug |-> "CR", severity |-> "Medium"],
     [slug |-> "IF", severity |-> "Medium"],
     [slug |-> "IT", severity |-> "Medium"],
     [slug |-> "WF", severity |-> "Low"],
     [slug |-> "AS", severity |-> "Low"],
     [slug |-> "LC", severity |-> "Low"],
     [slug |-> "BL", severity |-> "Low"],
     [slug |-> "AOS", severity |-> "Low"],
     [slug |-> "AAOS", severity |-> "Low"],
     [slug |-> "BOS", severity |-> "Low"],
     [slug |-> "BAOS", severity |-> "Low"],
     [slug |-> "LOS", severity |-> "Low"],
     [slug |-> "COS", severity |-> "Low"],
     [slug |-> "SOS", severity |-> "Low"],
     [slug |-> "SAOS", severity |-> "Low"] >>

FUNC_MUTATIONS ==
  << [slug |-> "INF", severity |-> "Low"],
     [slug |-> "INT", severity |-> "Low"],
     [slug |-> "RZ", severity |-> "Low"],
     [slug |-> "UF", severity |-> "Low"],
     [slug |-> "SU", severity |-> "Low"],
     [slug |-> "SI", severity |-> "Low"],
     [slug |-> "SC", severity |-> "Low"],
     [slug |-> "DOS", severity |-> "Low"],
     [slug |-> "DAOS", severity |-> "Low"],
     [slug |-> "MOS", severity |-> "Low"],
     [slug |-> "MAOS", severity |-> "Low"] >>

\* the Tact catalog with a mutation of FunC copied into it
TACT_MUTATIONS_with_INF ==
  << [slug |-> "RZ", severity |-> "Low"],
     [slug |-> "UF", severity |-> "Low"],
     [slug |-> "TT", severity |-> "Low"],
     [slug |-> "TF", severity |-> "Low"],
     [slug |-> "INF", severity |-> "Low"] >>

TACT_MUTATIONS ==
  << [slug |-> "RZ", severity |-> "Low"],
     [slug |-> "UF", severity |-> "Low"],
     [slug |-> "TT", severity |-> "Low"],
     [slug |-> "TF", severity |-> "Low"] >>

\* FuncMutationEngine::new and TactMutationEngine::new: the merged catalog
FuncMutationEngine_new == COMMON_MUTATIONS \o FUNC_MUTATIONS

TactMutationEngine_new == COMMON_MUTATIONS \o TACT_MUTATIONS

get_mutations_for_language(language) ==
  IF language = "func" THEN FuncMutationEngine_new ELSE TactMutationEngine_new

\* what one pass of the loop over the catalog does: it extends all_mutants, or
\* it panics in the default arm
Emit(new_mutants) == [panic |-> FALSE, mutants |-> new_mutants]

Panic == [panic |-> TRUE, mutants |-> <<>>]

\* the node kinds of the statements that ER and CR take, and of the calls
FuncStatementKinds ==
  {"expression_statement", "return_statement", "assignment_statement",
   "variable_declaration", "if_statement"}

FuncCallKinds == {"call_expression", "function_application", "method_call"}

TactStatementKinds ==
  {"expression_statement", "return_statement", "let_statement", "destruct_statement",
   "if_statement", "while_statement", "do_until_statement", "repeat_statement",
   "foreach_statement"}

\* FuncMutationEngine::apply_all_mutations: the arm of the match for a slug
FuncArm(slug, target, tree, source) ==
  CASE slug = "ER" ->
         Emit(replace_entire_nodes_of_kinds_filtered(target, tree, source,
              FuncStatementKinds,
              "ER",
              <<"t", "h", "r", "o", "w", "(", "1", ")", ";">>,
              <<"t", "h", "r", "o", "w", "(">>))
    [] slug = "CR" ->
         Emit(wrap_nodes_of_kinds_with_wrappers(target, tree, source,
              FuncStatementKinds,
              "CR",
              <<"{", "-", " ">>,
              <<" ", "-", "}">>))
    [] slug = "IF" ->
         Emit(replace_condition_for_nodes_of_kind(target, tree, source,
              "if_statement",
              "condition",
              {"if"},
              "IF",
              <<"f", "a", "l", "s", "e">>))
    [] slug = "IT" ->
         Emit(replace_condition_for_nodes_of_kind(target, tree, source,
              "if_statement",
              "condition",
              {"if"},
              "IT",
              <<"t", "r", "u", "e">>))
    [] slug = "INF" ->
         Emit(replace_condition_for_nodes_of_kind(target, tree, source,
              "ifnot_statement",
              "condition",
              {"ifnot"},
              "INF",
              <<"f", "a", "l", "s", "e">>))
    [] slug = "INT" ->
         Emit(replace_condition_for_nodes_of_kind(target, tree, source,
              "ifnot_statement",
              "condition",
              {"ifnot"},
              "INT",
              <<"t", "r", "u", "e">>))
    [] slug = "WF" ->
         Emit(replace_condition_for_nodes_of_kind(target, tree, source,
              "while_statement",
              "condition",
              {"while"},
              "WF",
              <<"f", "a", "l", "s", "e">>))
    [] slug = "RZ" ->
         Emit(replace_repeat_count_for_nodes_of_kind(target, tree, source,
              "repeat_statement",
              "count",
              {"repeat"},
              "RZ",
              <<"0">>))
    [] slug = "UF" ->
         Emit(replace_condition_for_nodes_of_kind(target, tree, source,
              "until_statement",
              "condition",
              {"until"},
              "UF",
              <<"f", "a", "l", "s", "e">>))
    [] slug = "AS" ->
         Emit(swap_adjacent_arguments_for_kinds(target, tree, source,
              FuncCallKinds,
              "arguments",
              "AS")
              \o swap_adjacent_arguments_for_kinds(target, tree, source,
              FuncCallKinds,
              "argument_list",
              "AS"))
    [] slug = "SU" ->
         Emit(replace_first_argument_for_calls_matching(target, tree, source,
              FuncCallKinds,
              "arguments",
              {"argument_list"},
              "SU",
              <<"s", "t", "o", "r", "e", "_", "u", "i", "n", "t">>,
              <<"0">>))
    [] slug = "SI" ->
         Emit(replace_first_argument_for_calls_matching(target, tree, source,
              FuncCallKinds,
              "arguments",
              {"argument_list"},
              "SI",
              <<"s", "t", "o", "r", "e", "_", "i", "n", "t">>,
              <<"0">>))
    [] slug = "SC" ->
         Emit(replace_first_argument_for_calls_matching(target, tree, source,
              FuncCallKinds,
              "arguments",
              {"argument_list"},
              "SC",
              <<"s", "t", "o", "r", "e", "_", "c", "o", "i", "n", "s">>,
              <<"0">>))
    [] slug = "LC" ->
         Emit(swap_loop_control_statements(target, tree, source,
              "break_statement",
              "continue_statement",
              "LC"))
    [] slug = "BL" ->
         Emit(flip_boolean_literals_by_kind(target, tree, source,
              "boolean",
              "BL"))
    [] slug = "AOS" ->
         Emit(shuffle_operators_in_expressions(target, tree, source,
              {"expression"},
              << <<"+">>, <<"-">>, <<"*">>, <<"/">> >>,
              "AOS"))
    [] slug = "AAOS" ->
         Emit(shuffle_operators_in_expressions(target, tree, source,
              {"expression"},
              << <<"+", "=">>, <<"-", "=">>, <<"*", "=">>, <<"/", "=">> >>,
              "AAOS"))
    [] slug = "BOS" ->
         Emit(shuffle_operators_in_expressions(target, tree, source,
              {"expression"},
              << <<"&">>, <<"|">>, <<"^">> >>,
              "BOS"))
    [] slug = "BAOS" ->
         Emit(shuffle_operators_in_expressions(target, tree, source,
              {"expression"},
              << <<"&", "=">>, <<"|", "=">>, <<"^", "=">> >>,
              "BAOS"))
    [] slug = "COS" ->
         Emit(shuffle_operators_in_expressions(target, tree, source,
              {"expression"},
              << <<"=", "=">>, <<"!", "=">>, <<"<">>, <<"<", "=">>, <<">">>, <<">", "=">> >>,
              "COS"))
    [] slug = "DOS" ->
         Emit(shuffle_operators_in_expressions(target, tree, source,
              {"expression"},
              << <<"/">>, <<"~", "/">>, <<"^", "/">> >>,
              "DOS"))
    [] slug = "DAOS" ->
         Emit(shuffle_operators_in_expressions(target, tree, source,
              {"expression"},
              << <<"/", "=">>, <<"~", "/", "=">>, <<"^", "/", "=">> >>,
              "DAOS"))
    [] slug = "LOS" ->
         Emit(shuffle_operators_in_expressions(target, tree, source,
              {"expression"},
              << <<"&", "&">>, <<"|", "|">> >>,
              "LOS"))
    [] slug = "MOS" ->
         Emit(shuffle_operators_in_expressions(target, tree, source,
              {"expression"},
              << <<"%">>, <<"~", "%">>, <<"^", "%">> >>,
              "MOS"))
    [] slug = "MAOS" ->
         Emit(shuffle_operators_in_expressions(target, tree, source,
              {"expression"},
              << <<"%", "=">>, <<"~", "%", "=">>, <<"^", "%", "=">> >>,
              "MAOS"))
    [] slug = "SOS" ->
         Emit(shuffle_operators_in_expressions(target, tree, source,
              {"expression"},
              << <<"<", "<">>, <<">", ">">>, <<"~", ">", ">">>, <<"^", ">", ">">> >>,
              "SOS"))
    [] slug = "SAOS" ->
         Emit(shuffle_operators_in_expressions(target, tree, source,
              {"expression"},
              << <<"<", "<", "=">>, <<">", ">", "=">>, <<"~", ">", ">", "=">>, <<"^", ">", ">", "=">> >>,
              "SAOS"))
    [] OTHER -> Panic

\* TactMutationEngine::apply_all_mutations: the arm of the match for a slug
TactArm(slug, target, tree, source) ==
  CASE slug = "ER" ->
         Emit(replace_entire_nodes_of_kinds_filtered(target, tree, source,
              TactStatementKinds,
              "ER",
              <<"r", "e", "q", "u", "i", "r", "e", "(", "f", "a", "l", "s", "e", ")", ";">>,
              <<"r", "e", "q", "u", "i", "r", "e", "(">>))
    [] slug = "CR" ->
         Emit(wrap_nodes_of_kinds_with_wrappers(target, tree, source,
              TactStatementKinds,
              "CR",
              <<"/", "*", " ">>,
              <<" ", "*", "/">>))
    [] slug = "IF" ->
         Emit(replace_field_for_nodes_of_kind(target, tree, source,
              "if_statement",
              "condition",
              "IF",
              <<"f", "a", "l", "s", "e">>))
    [] slug = "IT" ->
         Emit(replace_field_for_nodes_of_kind(target, tree, source,
              "if_statement",
              "condition",
              "IT",
              <<"t", "r", "u", "e">>))
    [] slug = "WF" ->
         Emit(replace_field_for_nodes_of_kind(target, tree, source,
              "while_statement",
              "condition",
              "WF",
              <<"f", "a", "l", "s", "e">>))
    [] slug = "RZ" ->
         Emit(replace_field_for_nodes_of_kind(target, tree, source,
              "repeat_statement",
              "condition",
              "RZ",
              <<"0">>))
    [] slug = "AS" ->
         Emit(swap_adjacent_arguments_for_kinds(target, tree, source,
              {"method_call_expression", "static_call_expression"},
              "arguments",
              "AS"))
    [] slug = "AOS" ->
         Emit(shuffle_operators_in_expressions(target, tree, source,
              {"binary_expression"},
              << <<"+">>, <<"-">>, <<"*">>, <<"/">> >>,
              "AOS"))
    [] slug = "AAOS" ->
         Emit(shuffle_operators_in_expressions(target, tree, source,
              {"binary_expression"},
              << <<"+", "=">>, <<"-", "=">>, <<"*", "=">>, <<"/", "=">> >>,
              "AAOS"))
    [] slug = "BOS" ->
         Emit(shuffle_operators_in_expressions(target, tree, source,
              {"binary_expression"},
              << <<"&">>, <<"|">>, <<"^">> >>,
              "BOS"))
    [] slug = "BAOS" ->
         Emit(shuffle_operators_in_expressions(target, tree, source,
              {"binary_expression"},
              << <<"&", "=">>, <<"|", "=">>, <<"^", "=">> >>,
              "BAOS"))
    [] slug = "UF" ->
         Emit(replace_field_for_nodes_of_kind(target, tree, source,
              "do_until_statement",
              "condition",
              "UF",
              <<"f", "a", "l", "s", "e">>))
    [] slug = "BL" ->
         Emit(flip_boolean_literals_by_kind(target, tree, source,
              "boolean",
              "BL"))
    [] slug = "COS" ->
         Emit(shuffle_operators_in_expressions(target, tree, source,
              {"binary_expression"},
              << <<"=", "=">>, <<"!", "=">>, <<"<">>, <<"<", "=">>, <<">">>, <<">", "=">> >>,
              "COS"))
    [] slug = "LOS" ->
         Emit(shuffle_operators_in_expressions(target, tree, source,
              {"binary_expression"},
              << <<"&", "&">>, <<"|", "|">> >>,
              "LOS"))
    [] slug = "SOS" ->
         Emit(shuffle_operators_in_expressions(target, tree, source,
              {"binary_expression"},
              << <<"<", "<">>, <<">", ">">> >>,
              "SOS"))
    [] slug = "SAOS" ->
         Emit(shuffle_operators_in_expressions(target, tree, source,
              {"binary_expression"},
              << <<"<", "<", "=">>, <<">", ">", "=">> >>,
              "SAOS"))
    [] slug = "TT" ->
         Emit(replace_field_for_nodes_of_kind(target, tree, source,
              "ternary_expression",
              "condition",
              "TT",
              <<"t", "r", "u", "e">>))
    [] slug = "TF" ->
         Emit(replace_field_for_nodes_of_kind(target, tree, source,
              "ternary_expression",
              "condition",
              "TF",
              <<"f", "a", "l", "s", "e">>))
    [] slug = "LC" ->
         Emit(swap_loop_control_statements(target, tree, source,
              "break_statement",
              "continue_statement",
              "LC"))
    [] OTHER -> Panic

(***************************************************************************)
(* The sources that are parsed, with the tree the parser gives for each.   *)
(***************************************************************************)
\* a Tact function without comments:
\*   fun f() {
\*     if (true) { g(1, 22); }
\*     while (a < b) { break; }
\*     return c + d;
\*   }
TactAText ==
  <<"f", "u", "n", " ", "f", "(", ")", " ", "{", "\n", " ", " ", "i", "f",
    " ", "(", "t", "r", "u", "e", ")", " ", "{", " ", "g", "(", "1", ",",
    " ", "2", "2", ")", ";", " ", "}", "\n", " ", " ", "w", "h", "i", "l",
    "e", " ", "(", "a", " ", "<", " ", "b", ")", " ", "{", " ", "b", "r",
    "e", "a", "k", ";", " ", "}", "\n", " ", " ", "r", "e", "t", "u", "r",
    "n", " ", "c", " ", "+", " ", "d", ";", "\n", "}">>

TactATree ==
  << Named("source_file", 0, 80, 0, None),
     Named("global_function", 0, 80, 1, None),
     Token("fun", 0, 3, 2),
     Named("identifier", 4, 5, 2, "name"),
     Named("parameter_list", 5, 7, 2, "parameters"),
     Token("(", 5, 6, 5),
     Token(")", 6, 7, 5),
     Named("function_body", 8, 80, 2, "body"),
     Token("{", 8, 9, 8),
     Named("if_statement", 12, 35, 8, None),
     Token("if", 12, 14, 10),
     Named("parenthesized_expression", 15, 21, 10, "condition"),
     Token("(", 15, 16, 12),
     Named("boolean", 16, 20, 12, None),
     Token(")", 20, 21, 12),
     Named("block_statement", 22, 35, 10, "consequence"),
     Token("{", 22, 23, 16),
     Named("expression_statement", 24, 33, 16, None),
     Named("static_call_expression", 24, 32, 18, None),
     Named("identifier", 24, 25, 19, "name"),
     Named("argument_list", 25, 32, 19, "arguments"),
     Token("(", 25, 26, 21),
     Named("argument", 26, 27, 21, None),
     Named("integer", 26, 27, 23, None),
     Token(",", 27, 28, 21),
     Named("argument", 29, 31, 21, None),
     Named("integer", 29, 31, 26, None),
     Token(")", 31, 32, 21),
     Token(";", 32, 33, 18),
     Token("}", 34, 35, 16),
     Named("while_statement", 38, 62, 8, None),
     Token("while", 38, 43, 31),
     Named("parenthesized_expression", 44, 51, 31, "condition"),
     Token("(", 44, 45, 33),
     Named("binary_expression", 45, 50, 33, None),
     Named("identifier", 45, 46, 35, None),
     Token("<", 47, 48, 35),
     Named("identifier", 49, 50, 35, None),
     Token(")", 50, 51, 33),
     Named("block_statement", 52, 62, 31, "body"),
     Token("{", 52, 53, 40),
     Named("break_statement", 54, 60, 40, None),
     Token("break", 54, 59, 42),
     Token(";", 59, 60, 42),
     Token("}", 61, 62, 40),
     Named("return_statement", 65, 78, 8, None),
     Token("return", 65, 71, 46),
     Named("binary_expression", 72, 77, 46, None),
     Named("identifier", 72, 73, 48, None),
     Token("+", 74, 75, 48),
     Named("identifier", 76, 77, 48, None),
     Token(";", 77, 78, 46),
     Token("}", 79, 80, 8) >>

\* a Tact function with a line comment and two block comments:
\*   // é
\*   fun f() {
\*     g(/* c */ 1, 2);
\*     if (x) { /* d */ return true; }
\*   }
TactBText ==
  <<"/", "/", " ", "C3", "A9", "\n", "f", "u", "n", " ", "f", "(", ")",
    " ", "{", "\n", " ", " ", "g", "(", "/", "*", " ", "c", " ", "*", "/",
    " ", "1", ",", " ", "2", ")", ";", "\n", " ", " ", "i", "f", " ", "(",
    "x", ")", " ", "{", " ", "/", "*", " ", "d", " ", "*", "/", " ", "r",
    "e", "t", "u", "r", "n", " ", "t", "r", "u", "e", ";", " ", "}", "\n",
    "}">>

TactBTree ==
  << Named("source_file", 0, 70, 0, None),
     Named("comment", 0, 5, 1, None),
     Named("global_function", 6, 70, 1, None),
     Token("fun", 6, 9, 3),
     Named("identifier", 10, 11, 3, "name"),
     Named("parameter_list", 11, 13, 3, "parameters"),
     Token("(", 11, 12, 6),
     Token(")", 12, 13, 6),
     Named("function_body", 14, 70, 3, "body"),
     Token("{", 14, 15, 9),
     Named("expression_statement", 18, 34, 9, None),
     Named("static_call_expression", 18, 33, 11, None),
     Named("identifier", 18, 19, 12, "name"),
     Named("argument_list", 19, 33, 12, "arguments"),
     Token("(", 19, 20, 14),
     Named("comment", 20, 27, 14, None),
     Named("argument", 28, 29, 14, None),
     Named("integer", 28, 29, 17, None),
     Token(",", 29, 30, 14),
     Named("argument", 31, 32, 14, None),
     Named("integer", 31, 32, 20, None),
     Token(")", 32, 33, 14),
     Token(";", 33, 34, 11),
     Named("if_statement", 37, 68, 9, None),
     Token("if", 37, 39, 24),
     Named("parenthesized_expression", 40, 43, 24, "condition"),
     Token("(", 40, 41, 26),
     Named("identifier", 41, 42, 26, None),
     Token(")", 42, 43, 26),
     Named("block_statement", 44, 68, 24, "consequence"),
     Token("{", 44, 45, 30),
     Named("comment", 46, 53, 30, None),
     Named("return_statement", 54, 66, 30, None),
     Token("return", 54, 60, 33),
     Named("boolean", 61, 65, 33, None),
     Token(";", 65, 66, 33),
     Token("}", 67, 68, 30),
     Token("}", 69, 70, 9) >>

\* a Tact function with calls of one, three and no arguments:
\*   fun f() {
\*     h(7);
\*     k(a, g(), c);
\*   }
TactCText ==
  <<"f", "u", "n", " ", "f", "(", ")", " ", "{", "\n", " ", " ", "h", "(",
    "7", ")", ";", "\n", " ", " ", "k", "(", "a", ",", " ", "g", "(", ")",
    ",", " ", "c", ")", ";", "\n", "}">>

TactCTree ==
  << Named("source_file", 0, 35, 0, None),
     Named("global_function", 0, 35, 1, None),
     Token("fun", 0, 3, 2),
     Named("identifier", 4, 5, 2, "name"),
     Named("parameter_list", 5, 7, 2, "parameters"),
     Token("(", 5, 6, 5),
     Token(")", 6, 7, 5),
     Named("function_body", 8, 35, 2, "body"),
     Token("{", 8, 9, 8),
     Named("expression_statement", 12, 17, 8, None),
     Named("static_call_expression", 12, 16, 10, None),
     Named("identifier", 12, 13, 11, "name"),
     Named("argument_list", 13, 16, 11, "arguments"),
     Token("(", 13, 14, 13),
     Named("argument", 14, 15, 13, None),
     Named("integer", 14, 15, 15, None),
     Token(")", 15, 16, 13),
     Token(";", 16, 17, 10),
     Named("expression_statement", 20, 33, 8, None),
     Named("static_call_expression", 20, 32, 19, None),
     Named("identifier", 20, 21, 20, "name"),
     Named("argument_list", 21, 32, 20, "arguments"),
     Token("(", 21, 22, 22),
     Named("argument", 22, 23, 22, None),
     Named("identifier", 22, 23, 24, None),
     Token(",", 23, 24, 22),
     Named("argument", 25, 28, 22, None),
     Named("static_call_expression", 25, 28, 27, None),
     Named("identifier", 25, 26, 28, "name"),
     Named("argument_list", 26, 28, 28, "arguments"),
     Token("(", 26, 27, 30),
     Token(")", 27, 28, 30),
     Token(",", 28, 29, 22),
     Named("argument", 30, 31, 22, None),
     Named("identifier", 30, 31, 34, None),
     Token(")", 31, 32, 22),
     Token(";", 32, 33, 19),
     Token("}", 34, 35, 8) >>

\* a FunC function without comments:
\*   () main() {
\*     if (false) { return 1; }
\*     store_uint(b, x, 8);
\*     repeat (3) { y += 1; }
\*   }
FuncAText ==
  <<"(", ")", " ", "m", "a", "i", "n", "(", ")", " ", "{", "\n", " ", " ",
    "i", "f", " ", "(", "f", "a", "l", "s", "e", ")", " ", "{", " ", "r",
    "e", "t", "u", "r", "n", " ", "1", ";", " ", "}", "\n", " ", " ", "s",
    "t", "o", "r", "e", "_", "u", "i", "n", "t", "(", "b", ",", " ", "x",
    ",", " ", "8", ")", ";", "\n", " ", " ", "r", "e", "p", "e", "a", "t",
    " ", "(", "3", ")", " ", "{", " ", "y", " ", "+", "=", " ", "1", ";",
    " ", "}", "\n", "}">>

FuncATree ==
  << Named("translation_unit", 0, 88, 0, None),
     Named("function_definition", 0, 88, 1, None),
     Named("unit_type", 0, 2, 2, "return_type"),
     Token("(", 0, 1, 3),
     Token(")", 1, 2, 3),
     Named("function_name", 3, 7, 2, "name"),
     Named("parameter_list", 7, 9, 2, "arguments"),
     Token("(", 7, 8, 7),
     Token(")", 8, 9, 7),
     Named("block_statement", 10, 88, 2, "body"),
     Token("{", 10, 11, 10),
     Named("if_statement", 14, 38, 10, None),
     Token("if", 14, 16, 12),
     Named("parenthesized_expression", 17, 24, 12, None),
     Token("(", 17, 18, 14),
     Named("boolean", 18, 23, 14, None),
     Token(")", 23, 24, 14),
     Named("block_statement", 25, 38, 12, "consequent"),
     Token("{", 25, 26, 18),
     Named("return_statement", 27, 36, 18, None),
     Token("return", 27, 33, 20),
     Named("expression", 34, 35, 20, None),
     Named("number_literal", 34, 35, 22, None),
     Token(";", 35, 36, 20),
     Token("}", 37, 38, 18),
     Named("expression_statement", 41, 61, 10, None),
     Named("function_application", 41, 60, 26, None),
     Named("identifier", 41, 51, 27, "function"),
     Named("argument_list", 51, 60, 27, "arguments"),
     Token("(", 51, 52, 29),
     Named("identifier", 52, 53, 29, None),
     Token(",", 53, 54, 29),
     Named("identifier", 55, 56, 29, None),
     Token(",", 56, 57, 29),
     Named("number_literal", 58, 59, 29, None),
     Token(")", 59, 60, 29),
     Token(";", 60, 61, 26),
     Named("repeat_statement", 64, 86, 10, None),
     Token("repeat", 64, 70, 38),
     Named("parenthesized_expression", 71, 74, 38, "count"),
     Token("(", 71, 72, 40),
     Named("number_literal", 72, 73, 40, None),
     Token(")", 73, 74, 40),
     Named("block_statement", 75, 86, 38, "body"),
     Token("{", 75, 76, 44),
     Named("expression_statement", 77, 84, 44, None),
     Named("expression", 77, 83, 46, None),
     Named("identifier", 77, 78, 47, None),
     Token("+=", 79, 81, 47),
     Named("number_literal", 82, 83, 47, None),
     Token(";", 83, 84, 46),
     Token("}", 85, 86, 44),
     Token("}", 87, 88, 10) >>

\* a FunC function with a line comment and two block comments:
\*   ;; c
\*   () main() {
\*     if (x) { {- d -} return true; }
\*     store_int({- e -} b, 1);
\*   }
FuncBText ==
  <<";", ";", " ", "c", "\n", "(", ")", " ", "m", "a", "i", "n", "(", ")",
    " ", "{", "\n", " ", " ", "i", "f", " ", "(", "x", ")", " ", "{", " ",
    "{", "-", " ", "d", " ", "-", "}", " ", "r", "e", "t", "u", "r", "n",
    " ", "t", "r", "u", "e", ";", " ", "}", "\n", " ", " ", "s", "t", "o",
    "r", "e", "_", "i", "n", "t", "(", "{", "-", " ", "e", " ", "-", "}",
    " ", "b", ",", " ", "1", ")", ";", "\n", "}">>

FuncBTree ==
  << Named("translation_unit", 0, 79, 0, None),
     Named("comment", 0, 4, 1, None),
     Named("function_definition", 5, 79, 1, None),
     Named("unit_type", 5, 7, 3, "return_type"),
     Token("(", 5, 6, 4),
     Token(")", 6, 7, 4),
     Named("function_name", 8, 12, 3, "name"),
     Named("parameter_list", 12, 14, 3, "arguments"),
     Token("(", 12, 13, 8),
     Token(")", 13, 14, 8),
     Named("block_statement", 15, 79, 3, "body"),
     Token("{", 15, 16, 11),
     Named("if_statement", 19, 50, 11, None),
     Token("if", 19, 21, 13),
     Named("parenthesized_expression", 22, 25, 13, None),
     Token("(", 22, 23, 15),
     Named("identifier", 23, 24, 15, None),
     Token(")", 24, 25, 15),
     Named("block_statement", 26, 50, 13, "consequent"),
     Token("{", 26, 27, 19),
     Named("comment", 28, 35, 19, None),
     Named("return_statement", 36, 48, 19, None),
     Token("return", 36, 42, 22),
     Named("boolean", 43, 47, 22, None),
     Token(";", 47, 48, 22),
     Token("}", 49, 50, 19),
     Named("expression_statement", 53, 77, 11, None),
     Named("function_application", 53, 76, 27, None),
     Named("identifier", 53, 62, 28, "function"),
     Named("argument_list", 62, 76, 28, "arguments"),
     Token("(", 62, 63, 30),
     Named("comment", 63, 70, 30, None),
     Named("identifier", 71, 72, 30, None),
     Token(",", 72, 73, 30),
     Named("number_literal", 74, 75, 30, None),
     Token(")", 75, 76, 30),
     Token(";", 76, 77, 27),
     Token("}", 78, 79, 11) >>

\* parser::parse_for_language: the tree of the source, <<>> for None
parse_for_language(language, source) ==
  CASE language = "tact" /\ source = TactAText -> <<TactATree>>
    [] language = "tact" /\ source = TactBText -> <<TactBTree>>
    [] language = "tact" /\ source = TactCText -> <<TactCTree>>
    [] language = "func" /\ source = FuncAText -> <<FuncATree>>
    [] language = "func" /\ source = FuncBText -> <<FuncBTree>>
    [] OTHER -> <<>>

\* the targets of `mutate`: a file of either dialect, stored under id 1 or 2
GenTargets ==
  {[LoadedTarget(f.path, f.text) EXCEPT !.id = id] :
     f \in {[path |-> "c.tact", text |-> TactAText], [path |-> "c.tact", text |-> TactBText],
            [path |-> "c.tact", text |-> TactCText],
            [path |-> "a.fc", text |-> FuncAText], [path |-> "b.fc", text |-> FuncBText]},
     id \in {1, 2}}

\* ---- Target::mutate with its two checks
\* the bytes that begin a two-byte character and those that continue one
Utf8Lead == {"C3"}
Utf8Continuation == {"A9"}

\* String::from_utf8 succeeds: every byte that begins a character is followed
\* by its continuation, and every continuation follows such a byte
from_utf8(bytes) ==
  \A i \in 1..Len(bytes) :
    /\ bytes[i] \in Utf8Lead => (i < Len(bytes) /\ bytes[i + 1] \in Utf8Continuation)
    /\ bytes[i] \in Utf8Continuation => (i > 1 /\ bytes[i - 1] \in Utf8Lead)

\* Target::mutate: the mutated text, or an error
mutate_checked(t, m) ==
  IF m.target_id # t.id /\ m.target_id # 0
    THEN [ok |-> FALSE, text |-> <<>>, error |-> "InvalidInput"]
  ELSE IF ~from_utf8(mutate(t, m))
    THEN [ok |-> FALSE, text |-> <<>>, error |-> "InvalidData"]
  ELSE [ok |-> TRUE, text |-> mutate(t, m), error |-> None]

(***************************************************************************)
(* GenSpec: apply_all_mutations on one target, one pass of its loop at a   *)
(* time, and Target::mutate on the mutants it returned.                    *)
(***************************************************************************)
InitGen ==
  /\ targets = <<>>
  /\ mutants = <<>>
  /\ outcomes = <<>>
  /\ store_call = NoCall
  /\ NbIdle
  /\ SchedIdle
  /\ IoIdle
  /\ gen_target \in {<<t>> : t \in GenTargets}
  /\ gen_tree = <<>>
  /\ gen_pc = "parse"
  /\ gen_todo = <<>>
  /\ all_mutants = <<>>
  /\ mutated = <<>>
  /\ report = <<>>

\* the source is parsed; without a tree no mutant is returned
GenParse ==
  /\ gen_pc = "parse"
  /\ LET parsed == parse_for_language(gen_target[1].language, gen_target[1].text)
     IN  IF parsed = <<>>
           THEN gen_pc' = "done" /\ UNCHANGED <<gen_tree, gen_todo>>
           ELSE /\ gen_tree' = parsed[1]
                /\ gen_todo' = get_mutations_for_language(gen_target[1].language)
                /\ gen_pc' = "loop"
  /\ UNCHANGED <<storeVars, store_call, nbVars, schedVars, ioVars, gen_target, all_mutants, mutated,
                 report>>

\* one pass of `for m in &self.mutations`; after the last one the mutants are
\* returned
GenLoop ==
  /\ gen_pc = "loop"
  /\ gen_todo # <<>>
  /\ LET m == Head(gen_todo)
         arm == IF gen_target[1].language = "func"
                  THEN FuncArm(m.slug, gen_target[1], gen_tree, gen_target[1].text)
                  ELSE TactArm(m.slug, gen_target[1], gen_tree, gen_target[1].text)
     IN  IF arm.panic
           THEN gen_pc' = "panic" /\ UNCHANGED <<gen_todo, all_mutants>>
           ELSE /\ all_mutants' = all_mutants \o arm.mutants
                /\ gen_todo' = Tail(gen_todo)
                /\ gen_pc' = IF Tail(gen_todo) = <<>> THEN "done" ELSE "loop"
  /\ UNCHANGED <<storeVars, store_call, nbVars, schedVars, ioVars, gen_target, gen_tree, mutated,
                 report>>

\* Target::mutate is called with the target and one of its mutants
GenMutate ==
  /\ gen_pc = "done"
  /\ \E k \in 1..Len(all_mutants) :
       mutated' = <<[mutant |-> all_mutants[k],
                     result |-> mutate_checked(gen_target[1], all_mutants[k])]>>
  /\ UNCHANGED <<storeVars, store_call, nbVars, schedVars, ioVars, gen_target, gen_tree, gen_pc,
                 gen_todo, all_mutants, report>>

NextGen == GenParse \/ GenLoop \/ GenMutate

GenSpec == InitGen /\ [][NextGen]_vars

(***************************************************************************)
(* Properties of the scheduler (Spec).                                     *)
(***************************************************************************)
\* the target rows whose file differs from the stored text
Changed == {t \in Range(targets) : disk[t.path] # t.text}

AllRestored == Changed = {}

\* C1: whenever no test_mutant call is in progress, and so after every
\* test_mutant call and after the whole run, however the test ended, the file of
\* every target holds the target's stored text.
C1_FilesRestored == ctx = "none" => AllRestored

\* C2 as stated, for the runs in which test_mutant returned no error (C3 has
\* those): the flag was set while the mutant was on disk and its child spawned;
\* when the command has ended the child was killed and reaped (or had exited
\* by itself and was reaped), the file holds the target's text and the outcome
\* of the in-flight mutant is the one it had (or none).
C2_CancelInFlight ==
  (pc = "done" /\ cancel_inflight # <<>> /\ tm_error = <<>>) =>
     /\ child \in {"killed", "reaped"}
     /\ disk[cancel_inflight[1].target.path] = cancel_inflight[1].target.text
     /\ get_outcome(outcomes, cancel_inflight[1].mutant_id) = cancel_inflight[1].before

\* C2 amended: once the flag check of run_and_wait found the flag set during a
\* mutated test run (the timeout not reached, the exit not yet seen by
\* try_wait), the child is killed and reaped, the file holds the target's text,
\* and the outcome of the in-flight mutant stays the one it had (or none), from
\* the return of test_mutant to the end of the command.
C2_CancelObserved ==
  cancel_observed # <<>> =>
     /\ child = "killed"
     /\ ~running
     /\ disk[cancel_observed[1].target.path] = cancel_observed[1].target.text
     /\ get_outcome(outcomes, cancel_observed[1].mutant_id) = cancel_observed[1].before
     /\ ~has_active_mutation

C2_Witness ==
  /\ cancel_observed # <<>>
  /\ cancel_observed[1].before # <<>>
  /\ pc = "done"
  /\ child = "killed"
  /\ disk[cancel_observed[1].target.path] = cancel_observed[1].target.text

\* C3: once test_mutant has returned an error after it wrote the mutated text
\* and control is back in the command (after the cleanup of the campaign under
\* `run`, right after the call under `test`), the file holds the target's text.
C3_RestoredAfterError ==
  (tm_error # <<>> /\ pc \in {"ids", "groups", "done", "printed"}) =>
     disk[tm_error[1].path] = tm_error[1].text

\* C4: during `run`, at most one target file differs from its stored text, it
\* differs by the edit of one mutant of that target, and a mutated text is
\* written only when every file holds its stored text.
C4_OneMutationOnDisk ==
  /\ [](command = "run" =>
          /\ Cardinality(Changed) <= 1
          /\ \A t \in Changed :
               \E k \in 1..Len(mutants) :
                  /\ mutants[k].target_id = t.id
                  /\ disk[t.path] = mutate(t, mutants[k]))
  /\ [][(command = "run" /\ \E t \in Range(targets) :
                               disk'[t.path] # disk[t.path] /\ disk'[t.path] # t.text)
          => AllRestored]_vars

\* a second mutant of the target is on disk, after the first one was tested
C4_Witness ==
  /\ command = "run"
  /\ ctx = "mutant"
  /\ iter_log # <<>>
  /\ iter_log[1].status # "Skipped"
  /\ Cardinality(Changed) = 1

\* the severity of the mutant of an entry of iter_log, and its lines
LoggedSeverity(e) == get_severity_by_slug(get_mutant(mutants, e.mutant_id)[1].mutation_slug)

LoggedLines(e) == LinesOf(get_mutant(mutants, e.mutant_id)[1])

\* C5: in non-comprehensive mode, an outcome recorded for a Low mutant after an
\* Uncaught outcome of a High or Medium mutant with a common line, in the same
\* iteration over a target, is Skipped.
C5_LowSkippedAfterUncaught ==
  (command = "run" /\ ~comprehensive) =>
     \A i, j \in 1..Len(iter_log) :
        (/\ i < j
         /\ iter_log[i].status = "Uncaught"
         /\ LoggedSeverity(iter_log[i]) \in {"High", "Medium"}
         /\ LoggedSeverity(iter_log[j]) = "Low"
         /\ LoggedLines(iter_log[i]) \cap LoggedLines(iter_log[j]) # {})
        => iter_log[j].status = "Skipped"

\* a Medium mutant was uncaught, no High one was, and the Low mutant of the
\* same line got its Skipped outcome
C5_Witness ==
  /\ command = "run"
  /\ ~comprehensive
  /\ \E i, j \in 1..Len(iter_log) :
        /\ i < j
        /\ iter_log[i].status = "Uncaught"
        /\ LoggedSeverity(iter_log[i]) = "Medium"
        /\ LoggedSeverity(iter_log[j]) = "Low"
        /\ LoggedLines(iter_log[i]) \cap LoggedLines(iter_log[j]) # {}
        /\ iter_log[j].status = "Skipped"
  /\ \A i \in 1..Len(iter_log) :
        LoggedSeverity(iter_log[i]) = "High" => iter_log[i].status # "Uncaught"

\* C6: once the baseline of a group exited with a non-zero code, the command
\* has ended with the baseline's error, and the outcomes and the files are the
\* ones of the moment the group was started: no mutant was written, no outcome
\* stored.
C6_BaselineFailureAborts ==
  baseline_exit \notin {NoneNum, 0} =>
     /\ pc \in {"done", "printed"}
     /\ exit_error = "Baseline test failed"
     /\ outcomes = group_start[1].outcomes
     /\ disk = group_start[1].disk
     /\ ~has_active_mutation

\* the baseline failed while another group was still to run
C6_Witness ==
  /\ baseline_exit = 1
  /\ pc = "done"
  /\ groups # {}

\* the loop of run_mutations_for_target is about to take the head of the queue
AtMutant == pc = "mutants" /\ command = "run" /\ running /\ mutant_queue # <<>>

\* its step: the head is consumed
MutantStep == AtMutant /\ mutant_queue' # mutant_queue

\* the stored outcome of the head of the queue has this status
HeadOutcomeIs(status) ==
  /\ get_outcome(outcomes, Head(mutant_queue).id) # <<>>
  /\ get_outcome(outcomes, Head(mutant_queue).id)[1].status = status

\* the step wrote the head of the queue to the file of its target and goes on
\* to run the test command
HeadApplied ==
  /\ ctx' = "mutant"
  /\ tm_mutant' = <<Head(mutant_queue)>>
  /\ disk' = [disk EXCEPT ![tm_target[1].path] = mutate(tm_target[1], Head(mutant_queue))]

\* the head of the queue is pruned by severity (or its severity is unknown), or
\* its slug is outside the --mutations list
HeadExcluded ==
  LET m == Head(mutant_queue)
      severity == get_severity_by_slug(m.mutation_slug)
  IN  \/ /\ ~comprehensive
         /\ \/ severity = None
            \/ should_skip(to_numeric(severity), m, uncaught_high_sev_lines,
                           uncaught_med_sev_lines)
      \/ allowed_slugs # {} /\ m.mutation_slug \notin allowed_slugs

\* C11 as stated: when the loop of `run` comes to a mutant whose stored outcome
\* is a Timeout, the mutant is applied again and its test is run again.
C11_TimeoutRerun == [][(MutantStep /\ HeadOutcomeIs("Timeout")) => HeadApplied]_vars

\* C11 amended: `run` without a target selects the target of every mutant
\* whose outcome is a Timeout; when its loop comes to such a mutant it applies
\* and runs it again unless severity pruning or the --mutations list excludes
\* it, and then it leaves the files alone and stores at most a Skipped outcome;
\* the outcome stored after the new run replaces the row of the Timeout with
\* the status of the new run.
C11_TimeoutRerunUnlessExcluded ==
  /\ [][(pc = "start" /\ command = "run" /\ pc' # pc) =>
          \A k \in 1..Len(mutants) :
             (\E o \in Range(outcomes) : o.mutant_id = mutants[k].id /\ o.status = "Timeout")
             => \E g \in groups' : \E i \in 1..Len(g.items) :
                   g.items[i].id = mutants[k].target_id]_vars
  /\ [][(MutantStep /\ HeadOutcomeIs("Timeout")) =>
          IF HeadExcluded
            THEN /\ disk' = disk
                 /\ ctx' = "none"
                 /\ \/ outcomes' = outcomes
                    \/ /\ Len(outcomes') = Len(outcomes)
                       /\ get_outcome(outcomes', Head(mutant_queue).id)[1].status = "Skipped"
            ELSE HeadApplied /\ outcomes' = outcomes]_vars
  /\ [][(/\ command = "run"
         /\ ctx = "mutant"
         /\ ctx' = "none"
         /\ get_outcome(outcomes, tm_mutant[1].id) # <<>>
         /\ outcomes' # outcomes) =>
          LET new == get_outcome(outcomes', tm_mutant[1].id)[1] IN
            /\ Len(outcomes') = Len(outcomes)
            /\ Cardinality({k \in 1..Len(outcomes') :
                              outcomes'[k].mutant_id = tm_mutant[1].id}) = 1
            /\ new.time = Now
            /\ new.status = (IF pc = "wait" THEN status_of_exit(child_code) ELSE "Timeout")]_vars

\* the Timeout of mutant 2 was replaced by the TestFail of this run
C11_Witness ==
  /\ command = "run"
  /\ get_outcome(PriorSome, 2)[1].status = "Timeout"
  /\ Len(outcomes) = Len(PriorSome)
  /\ get_outcome(outcomes, 2) # <<>>
  /\ get_outcome(outcomes, 2)[1].status = "TestFail"
  /\ get_outcome(outcomes, 2)[1].time = Now

StoredPos(m) == CHOOSE k \in 1..Len(mutants) : mutants[k].id = m.id

\* severity of a mutant as a number, for the slugs of the catalog
SeverityRank(m) == to_numeric(get_severity_by_slug(m.mutation_slug))

\* a comes before b: higher severity, or equal severity and stored earlier
TestedBefore(a, b) ==
  \/ SeverityRank(a) < SeverityRank(b)
  \/ SeverityRank(a) = SeverityRank(b) /\ StoredPos(a) < StoredPos(b)

\* C13: the loop over a target starts from all the mutants of the target, only
\* ever drops the head of its queue, and when it takes a mutant every mutant
\* still waiting is of lower severity, or of the same severity and stored
\* later.
C13_SeverityOrder ==
  /\ [][(command = "run" /\ pc = "campaign" /\ pc' = "mutants") =>
          /\ Len(mutant_queue') = Len(get_mutants(mutants, tm_target'[1].id))
          /\ Range(mutant_queue') = Range(get_mutants(mutants, tm_target'[1].id))]_vars
  /\ [][(command = "run" /\ tm_target # <<>> /\ tm_target' = tm_target) =>
          \/ mutant_queue' = mutant_queue
          \/ mutant_queue # <<>> /\ mutant_queue' = Tail(mutant_queue)]_vars
  /\ [][MutantStep =>
          \A k \in 2..Len(mutant_queue) :
             (/\ get_severity_by_slug(Head(mutant_queue).mutation_slug) # None
              /\ get_severity_by_slug(mutant_queue[k].mutation_slug) # None)
             => TestedBefore(Head(mutant_queue), mutant_queue[k])]_vars

\* the tests of the High, the Medium and the first Low mutant have been
\* stored in that order and the Low mutant stored later is on disk
C13_Witness ==
  /\ command = "run"
  /\ ctx = "mutant"
  /\ tm_mutant[1].id = 5
  /\ Len(iter_log) = 3
  /\ iter_log[1].mutant_id = 2
  /\ iter_log[2].mutant_id = 3
  /\ iter_log[3].mutant_id = 1
  /\ \A i \in 1..3 : iter_log[i].status # "Skipped"

\* the head of the queue has no outcome that is final, and the --mutations
\* list, if any, holds its slug
HeadEligible ==
  /\ ~(get_outcome(outcomes, Head(mutant_queue).id) # <<>> /\ ~HeadOutcomeIs("Timeout"))
  /\ allowed_slugs = {} \/ Head(mutant_queue).mutation_slug \in allowed_slugs

\* C23: in comprehensive mode no step of `run` stores a Skipped outcome, and
\* when the loop takes an eligible mutant (no outcome or a Timeout, slug
\* allowed) it writes the mutant to the file and goes on to run its test,
\* whatever was found uncaught before on its lines.
C23_ComprehensiveTestsAll ==
  /\ [][(command = "run" /\ comprehensive) =>
          \A k \in 1..Len(outcomes') :
             outcomes'[k].status = "Skipped" =>
               k <= Len(outcomes) /\ outcomes[k] = outcomes'[k]]_vars
  /\ [][(MutantStep /\ comprehensive /\ HeadEligible) =>
          /\ HeadApplied
          /\ pc' = "spawn"
          /\ outcomes' = outcomes]_vars

\* comprehensive mode: the High mutant 2 was stored Uncaught and the Medium
\* mutant 3, on a line of mutant 2, is on disk with its test running
C23_Witness ==
  /\ command = "run"
  /\ comprehensive
  /\ \E i \in 1..Len(iter_log) : iter_log[i] = [mutant_id |-> 2, status |-> "Uncaught"]
  /\ ctx = "mutant"
  /\ tm_mutant[1].id = 3
  /\ LinesOf(tm_mutant[1]) \cap uncaught_high_sev_lines # {}
  /\ child = "running"
  /\ disk["a.fc"] = mutate(tm_target[1], tm_mutant[1])

\* the severity rule prunes the head of the queue
HeadPruned ==
  LET m == Head(mutant_queue)
      severity == get_severity_by_slug(m.mutation_slug)
  IN  /\ ~comprehensive
      /\ ~(get_outcome(outcomes, m.id) # <<>> /\ ~HeadOutcomeIs("Timeout"))
      /\ severity # None
      /\ \/ /\ severity = "Medium"
            /\ LinesOf(m) \cap uncaught_high_sev_lines # {}
         \/ /\ severity = "Low"
            /\ LinesOf(m) \cap (uncaught_high_sev_lines \cup uncaught_med_sev_lines) # {}

\* C24: the iteration that prunes a mutant by the severity rule leaves the
\* files alone and starts no test; if it stores an outcome, that outcome is
\* the mutant's only one and has status Skipped, the fixed message and
\* duration 0, and the other rows stay; the mutant on disk during `run` is
\* never one that this iteration over the target pruned.
C24_PrunedNeverRun ==
  /\ [][(MutantStep /\ HeadPruned) =>
          /\ disk' = disk
          /\ ctx' = "none"
          /\ pc' = "mutants"
          /\ child' = child
          /\ ~has_active_mutation'
          /\ \/ outcomes' = outcomes
             \/ /\ get_outcome(outcomes', Head(mutant_queue).id) =
                     <<[mutant_id |-> Head(mutant_queue).id, status |-> "Skipped",
                        output |-> "Skipped due to uncaught higher severity mutation on the same line",
                        time |-> Now, duration_ms |-> 0]>>
                /\ Cardinality({k \in 1..Len(outcomes') :
                                  outcomes'[k].mutant_id = Head(mutant_queue).id}) = 1
                /\ \A k \in 1..Len(outcomes) :
                      outcomes[k].mutant_id # Head(mutant_queue).id => outcomes'[k] = outcomes[k]]_vars
  /\ []((command = "run" /\ ctx = "mutant") =>
          \A i \in 1..Len(iter_log) :
             iter_log[i].mutant_id = tm_mutant[1].id => iter_log[i].status # "Skipped")

\* the Medium mutant 3, which had a Timeout from an earlier run, was pruned
\* after the High mutant 2 was found uncaught: its row now says Skipped with
\* duration 0, and no file is changed
C24_Witness ==
  /\ command = "run"
  /\ pc = "mutants"
  /\ ctx = "none"
  /\ get_outcome(PriorSome, 3)[1].duration_ms = 2000
  /\ get_outcome(outcomes, 3) # <<>>
  /\ get_outcome(outcomes, 3)[1].status = "Skipped"
  /\ get_outcome(outcomes, 3)[1].duration_ms = 0
  /\ get_outcome(outcomes, 3)[1].output = SkippedMessage
  /\ Len(outcomes) = Len(PriorSome)
  /\ iter_log[Len(iter_log)] = [mutant_id |-> 3, status |-> "Skipped"]
  /\ AllRestored

\* C14: during `run`, an error returned by test_mutant (other than the
\* interruption, which returns Ok) is only logged: it never becomes the result
\* of the campaign or of the command, so the loops go on with the next mutant
\* and the remaining targets.
C14_ErrorDoesNotAbort ==
  (command = "run" /\ tm_error # <<>>) => (campaign_result = None /\ exit_error = None)

(***************************************************************************)
(* Properties of the results summary (Spec, after PrintResults).           *)
(***************************************************************************)
Buckets == {"overall", "High", "Medium", "Low"}

\* the stored outcomes of the mutants of a target that fall in a bucket
OutcomesOf(target_id, bucket) ==
  {o \in Range(outcomes) :
     \E m \in Range(mutants) :
       /\ m.id = o.mutant_id
       /\ m.target_id = target_id
       /\ bucket = "overall" \/ severity_bucket(m) = bucket}

CountStatus(target_id, bucket, statuses) ==
  Cardinality({o \in OutcomesOf(target_id, bucket) : o.status \in statuses})

\* C20: in the results summary, for every severity bucket and overall, the
\* denominator (eligible) is the number of outcomes with status TestFail or
\* Uncaught and the numerator (caught) is the number with status TestFail;
\* outcomes of every other status are left out of both.
C20_EligibleIsTestFailOrUncaught ==
  \A i \in 1..Len(report) : \A b \in Buckets :
    /\ report[i].tallies[b].eligible =
         CountStatus(report[i].target_id, b, {"TestFail", "Uncaught"})
    /\ report[i].tallies[b].caught = CountStatus(report[i].target_id, b, {"TestFail"})

\* C20 as amended: the denominator counts every outcome whose status is
\* neither Skipped nor BuildFail, so that a Timeout is eligible and not
\* caught; the numerator is the number of TestFail outcomes.
C20_EligibleIsAllButSkippedAndBuildFail ==
  \A i \in 1..Len(report) : \A b \in Buckets :
    /\ report[i].tallies[b].eligible =
         CountStatus(report[i].target_id, b, {"TestFail", "Uncaught", "Timeout"})
    /\ report[i].tallies[b].caught = CountStatus(report[i].target_id, b, {"TestFail"})
    /\ CountStatus(report[i].target_id, b, {"TestFail", "Uncaught", "Timeout"})
         + CountStatus(report[i].target_id, b, {"Skipped", "BuildFail"})
       = Cardinality(OutcomesOf(report[i].target_id, b))

\* a summary was printed for a target with an uncaught, a skipped and a timed
\* out mutant, and one for a target with a caught mutant
C20_Witness ==
  /\ pc = "printed"
  /\ \E i \in 1..Len(report) :
       /\ \A st \in {"Uncaught", "Skipped", "Timeout"} :
            CountStatus(report[i].target_id, "overall", {st}) > 0
       /\ report[i].tallies.overall.eligible >= 2
       /\ \E b \in {"High", "Medium", "Low"} : report[i].tallies[b].eligible > 0
  /\ \E i \in 1..Len(report) : report[i].tallies.overall.caught > 0

(***************************************************************************)
(* Properties of mutation generation (GenSpec).                            *)
(***************************************************************************)
\* the text of the target between two byte offsets, counted from 0
Slice(text, from, to) == [i \in 1..(to - from) |-> text[from + i]]

NewlinesBefore(text, byte_offset) ==
  Cardinality({i \in 1..byte_offset : text[i] = "\n"})

ByteExact(t, m) ==
  /\ m.byte_offset + Len(m.old_text) <= Len(t.text)
  /\ Slice(t.text, m.byte_offset, m.byte_offset + Len(m.old_text)) = m.old_text

\* C15: every mutant m emitted by a pattern for target T is byte-exact: the
\* bytes of T.text from m.byte_offset on, as many as old_text has, are
\* old_text, and m.line_offset is the number of newline bytes of T.text before
\* m.byte_offset.
C15_MutantsByteExact ==
  \A k \in 1..Len(all_mutants) :
    /\ ByteExact(gen_target[1], all_mutants[k])
    /\ all_mutants[k].line_offset
         = NewlinesBefore(gen_target[1].text, all_mutants[k].byte_offset)

\* all mutants of a source with a two-byte character were returned, one of
\* them an argument swap on the third line
C15_Witness ==
  /\ gen_pc = "done"
  /\ \E i \in 1..Len(gen_target[1].text) : gen_target[1].text[i] \in Utf8Lead
  /\ \E k \in 1..Len(all_mutants) :
       /\ all_mutants[k].mutation_slug = "AS"
       /\ all_mutants[k].line_offset = 2
       /\ Len(all_mutants[k].old_text) > 1
  /\ \E k \in 1..Len(all_mutants) :
       all_mutants[k].mutation_slug = "BL" /\ all_mutants[k].line_offset = 3

\* C16: for a target T and a byte-exact mutant m of T, T.mutate(m) is the
\* text of T before the offset, then new_text, then the text of T behind
\* old_text, and it differs from T.text exactly if old_text # new_text.
C16_MutateSplices ==
  mutated # <<>> =>
    LET t == gen_target[1]
        m == mutated[1].mutant
        r == mutated[1].result
        o == m.byte_offset
    IN  ByteExact(t, m) =>
          /\ r.ok
          /\ Len(r.text) = Len(t.text) - Len(m.old_text) + Len(m.new_text)
          /\ \A i \in 1..Len(r.text) :
               r.text[i] = IF i <= o THEN t.text[i]
                           ELSE IF i <= o + Len(m.new_text) THEN m.new_text[i - o]
                           ELSE t.text[i - Len(m.new_text) + Len(m.old_text)]
          /\ (r.text # t.text) <=> (m.old_text # m.new_text)

\* a mutant that replaces text in the middle of the file by a longer text was
\* applied, and the text changed
C16_Witness ==
  /\ mutated # <<>>
  /\ ByteExact(gen_target[1], mutated[1].mutant)
  /\ mutated[1].mutant.byte_offset > 0
  /\ Len(mutated[1].mutant.new_text) > Len(mutated[1].mutant.old_text)
  /\ Len(mutated[1].mutant.old_text) > 0
  /\ mutated[1].result.ok
  /\ mutated[1].result.text # gen_target[1].text

\* the byte spans of the comments of the parsed source
CommentSpans == {n \in Range(gen_tree) : n.kind = "comment"}

\* C17: no pattern emits a mutant located in a comment: the byte offset of an
\* emitted mutant never lies inside a comment span of T.text.
C17_NoMutantInComment ==
  \A k \in 1..Len(all_mutants) :
    \A c \in CommentSpans :
      ~(c.start_byte <= all_mutants[k].byte_offset /\ all_mutants[k].byte_offset < c.end_byte)

\* the block comment delimiters of the dialect of the target
BlockCommentDelimiters ==
  IF gen_target[1].language = "func"
    THEN {<<"{", "-">>, <<"-", "}">>}
    ELSE {<<"/", "*">>, <<"*", "/">>}

\* C18: for every CR mutant, new_text (prefix, old_text, suffix) holds no
\* nested comment delimiter of the outer wrap: the wrapped old_text has no
\* block-comment open or close delimiter of the dialect, also when the
\* wrapped statement encloses a comment.
C18_NoNestedCommentDelimiters ==
  \A k \in 1..Len(all_mutants) :
    all_mutants[k].mutation_slug = "CR" =>
      \A d \in BlockCommentDelimiters : ~contains(all_mutants[k].old_text, d)

NoDuplicateSlugs(catalog) ==
  \A i, j \in 1..Len(catalog) : catalog[i].slug = catalog[j].slug => i = j

\* C19: for each dialect engine the merged catalog (common, then the
\* dialect's own) has no duplicate slugs and every slug of it has an arm in
\* apply_all_mutations, which therefore never reaches the panicking default
\* arm.
C19_CatalogDispatched ==
  /\ NoDuplicateSlugs(FuncMutationEngine_new)
  /\ NoDuplicateSlugs(TactMutationEngine_new)
  /\ gen_pc # "panic"
  /\ gen_pc = "loop" =>
       \A i \in 1..Len(gen_todo) :
         ~(IF gen_target[1].language = "func"
             THEN FuncArm(gen_todo[i].slug, gen_target[1], gen_tree, gen_target[1].text)
             ELSE TactArm(gen_todo[i].slug, gen_target[1], gen_tree, gen_target[1].text)).panic

\* the loop of the Tact engine went through its whole catalog and returned
C19_Witness ==
  /\ gen_pc = "done"
  /\ gen_tree # <<>>
  /\ gen_todo = <<>>
  /\ gen_target[1].language = "tact"
  /\ \E k \in 1..Len(all_mutants) : all_mutants[k].mutation_slug = "LC"

\* the calls the AS arm of the dialect visits, and their argument containers
SwapCallKinds ==
  IF gen_target[1].language = "func"
    THEN {"call_expression", "function_application", "method_call"}
    ELSE {"method_call_expression", "static_call_expression"}

SwapCalls ==
  {c \in 1..Len(gen_tree) : gen_tree[c].kind \in SwapCallKinds /\ ~is_in_comment(gen_tree, c)}

\* the non-punctuation children of the argument container of call c
ArgsOfCall(c) ==
  {j \in 1..Len(gen_tree) :
     /\ gen_tree[j].kind \notin {"(", ")", ","}
     /\ gen_tree[j].parent # 0
     /\ gen_tree[gen_tree[j].parent].parent = c
     /\ gen_tree[gen_tree[j].parent].field \in {"arguments", "argument_list"}}

AdjacentPairs(c) ==
  {p \in ArgsOfCall(c) \X ArgsOfCall(c) :
     p[1] < p[2] /\ ~\E j \in ArgsOfCall(c) : p[1] < j /\ j < p[2]}

AsMutants == {k \in 1..Len(all_mutants) : all_mutants[k].mutation_slug = "AS"}

\* mutant k swaps the pair p = <<a, b>>
SwapsPair(k, p) ==
  LET a == gen_tree[p[1]]
      b == gen_tree[p[2]]
      text == gen_target[1].text
  IN  /\ all_mutants[k].byte_offset = a.start_byte
      /\ all_mutants[k].old_text = Slice(text, a.start_byte, b.end_byte)
      /\ all_mutants[k].new_text = Slice(text, b.start_byte, b.end_byte) \o <<",", " ">>
                                     \o Slice(text, a.start_byte, a.end_byte)

\* C25: when the engine has returned, each call whose argument container has
\* n >= 2 non-punctuation children has exactly n - 1 AS mutants, one for each
\* adjacent pair (a, b), replacing the bytes from the start of a to the end of
\* b by the text of b, ", " and the text of a; a call with fewer than 2 has
\* none, and there is no other AS mutant.
C25_ArgumentSwapPairs ==
  gen_pc = "done" =>
    /\ \A c \in SwapCalls :
          LET n == Cardinality(ArgsOfCall(c))
              of_c == {k \in AsMutants : \E p \in AdjacentPairs(c) : SwapsPair(k, p)}
          IN  /\ Cardinality(of_c) = IF n >= 2 THEN n - 1 ELSE 0
              /\ \A p \in AdjacentPairs(c) :
                    Cardinality({k \in AsMutants : SwapsPair(k, p)}) = 1
    /\ \A k \in AsMutants : \E c \in SwapCalls : \E p \in AdjacentPairs(c) : SwapsPair(k, p)
    /\ Cardinality(AsMutants) = Cardinality(UNION {AdjacentPairs(c) : c \in SwapCalls})

\* k(a, g(), c) gave the two swaps `g(), a` and `c, g()`; h(7) and g() gave none
C25_Witness ==
  /\ gen_pc = "done"
  /\ gen_target[1].text = TactCText
  /\ Cardinality(SwapCalls) = 3
  /\ Cardinality(AsMutants) = 2
  /\ \E k \in AsMutants :
        /\ all_mutants[k].old_text = <<"a", ",", " ", "g", "(", ")">>
        /\ all_mutants[k].new_text = <<"g", "(", ")", ",", " ", "a">>
  /\ \E k \in AsMutants :
        /\ all_mutants[k].old_text = <<"g", "(", ")", ",", " ", "c">>
        /\ all_mutants[k].new_text = <<"c", ",", " ", "g", "(", ")">>

\* the lines of the mutants of this target and this severity whose test, run
\* by this command, ended Uncaught
FoundUncaughtLines(severity, target_id) ==
  UNION {LinesOf(m) : m \in {x \in Range(mutants) :
            /\ x.target_id = target_id
            /\ get_severity_by_slug(x.mutation_slug) = severity
            /\ \E i \in 1..Len(found_log) :
                  found_log[i] = [mutant_id |-> x.id, status |-> "Uncaught"]}}

\* the rule of the specification for mutant m, from the tests run so far
RuleSkips(m) ==
  LET severity == get_severity_by_slug(m.mutation_slug)
      high == FoundUncaughtLines("High", m.target_id)
      med == FoundUncaughtLines("Medium", m.target_id)
  IN  \/ severity = "Medium" /\ LinesOf(m) \cap high # {}
      \/ severity = "Low" /\ LinesOf(m) \cap (high \cup med) # {}

\* the step stored a Skipped outcome for the head of the queue
HeadSkippedStored ==
  /\ outcomes' # outcomes
  /\ get_outcome(outcomes', Head(mutant_queue).id) # <<>>
  /\ get_outcome(outcomes', Head(mutant_queue).id)[1].status = "Skipped"

\* C26: without --comprehensive, when the loop takes a mutant of a known
\* severity that has no final outcome, the mutant is pruned exactly when its
\* lines meet the lines of a High mutant (for a Medium one) or of a High or
\* Medium mutant (for a Low one) of the same target whose test this run found
\* Uncaught: if so no file is written and the only outcome that can be stored
\* is Skipped; if not, no Skipped outcome is stored and the mutant is applied
\* unless the --mutations list leaves its slug out. No step stores a Skipped
\* outcome for a High mutant. Lines found uncaught in another target are not
\* counted.
C26_PruningExact ==
  /\ [][(/\ MutantStep
         /\ ~comprehensive
         /\ ~(get_outcome(outcomes, Head(mutant_queue).id) # <<>> /\ ~HeadOutcomeIs("Timeout"))
         /\ get_severity_by_slug(Head(mutant_queue).mutation_slug) # None) =>
          IF RuleSkips(Head(mutant_queue))
            THEN /\ disk' = disk
                 /\ ctx' = "none"
                 /\ pc' = "mutants"
                 /\ outcomes' = outcomes \/ HeadSkippedStored
            ELSE /\ ~HeadSkippedStored
                 /\ (allowed_slugs = {} \/ Head(mutant_queue).mutation_slug \in allowed_slugs)
                      => HeadApplied /\ pc' = "spawn"]_vars
  /\ [][(command = "run" /\ ~comprehensive) =>
          \A k \in 1..Len(outcomes') :
             (/\ outcomes'[k].status = "Skipped"
              /\ \E m \in Range(mutants) :
                    /\ m.id = outcomes'[k].mutant_id
                    /\ get_severity_by_slug(m.mutation_slug) = "High") =>
               k <= Len(outcomes) /\ outcomes[k] = outcomes'[k]]_vars

\* the High mutant 2 of a.fc was found Uncaught and the Medium mutant 3 on its
\* lines was stored Skipped; the Low mutant 4 of b.fc, on a line of the same
\* number, is on disk with its test running
C26_Witness ==
  /\ command = "run"
  /\ ~comprehensive
  /\ \E i \in 1..Len(found_log) : found_log[i] = [mutant_id |-> 2, status |-> "Uncaught"]
  /\ get_outcome(outcomes, 3) # <<>>
  /\ get_outcome(outcomes, 3)[1].status = "Skipped"
  /\ ctx = "mutant"
  /\ tm_mutant[1].id = 4
  /\ tm_mutant[1].target_id = 2
  /\ get_severity_by_slug(tm_mutant[1].mutation_slug) = "Low"
  /\ LinesOf(tm_mutant[1]) \cap FoundUncaughtLines("High", 1) # {}
  /\ child = "running"

\* the lines of the mutants of this target and this severity that the store
\* records as Uncaught, or that this run found Uncaught
KnownUncaughtLines(severity, target_id) ==
  UNION {LinesOf(m) : m \in {x \in Range(mutants) :
            /\ x.target_id = target_id
            /\ get_severity_by_slug(x.mutation_slug) = severity
            /\ \/ /\ get_outcome(outcomes, x.id) # <<>>
                  /\ get_outcome(outcomes, x.id)[1].status = "Uncaught"
               \/ \E i \in 1..Len(found_log) :
                     found_log[i] = [mutant_id |-> x.id, status |-> "Uncaught"]}}

\* the decision one uninterrupted campaign makes for mutant m: every mutant
\* tested before m has its result in the store
UninterruptedSkips(m) ==
  LET severity == get_severity_by_slug(m.mutation_slug)
      high == KnownUncaughtLines("High", m.target_id)
      med == KnownUncaughtLines("Medium", m.target_id)
  IN  \/ severity = "Medium" /\ LinesOf(m) \cap high # {}
      \/ severity = "Low" /\ LinesOf(m) \cap (high \cup med) # {}

\* C27: a `run`, resumed or not, makes for every mutant without a final
\* outcome the decision that one uninterrupted campaign makes: the mutant is
\* pruned exactly when the Uncaught results of the mutants of higher severity
\* of its target, as the store holds them, cover one of its lines.
C27_ResumeSameDecisions ==
  [][(/\ MutantStep
      /\ ~comprehensive
      /\ ~(get_outcome(outcomes, Head(mutant_queue).id) # <<>> /\ ~HeadOutcomeIs("Timeout"))
      /\ get_severity_by_slug(Head(mutant_queue).mutation_slug) # None) =>
       IF UninterruptedSkips(Head(mutant_queue))
         THEN /\ disk' = disk
              /\ ctx' = "none"
              /\ outcomes' = outcomes \/ HeadSkippedStored
         ELSE /\ ~HeadSkippedStored
              /\ (allowed_slugs = {} \/ Head(mutant_queue).mutation_slug \in allowed_slugs)
                   => HeadApplied]_vars

\* the store that the resumed run starts from is what an interrupted run
\* leaves: SIGINT was observed and the only outcome is mutant 2, Uncaught
C27_InterruptedStore ==
  /\ command = "run"
  /\ ~comprehensive
  /\ ~running
  /\ pc = "done"
  /\ Len(outcomes) = 1
  /\ outcomes[1].mutant_id = 2
  /\ outcomes[1].status = "Uncaught"

\* the text of the file at path p as the store holds it
StoredText(p) == (CHOOSE t \in Range(targets) : t.path = p).text

\* C28: once SIGINT has cleared the flag, each loop of `run` stops at its next
\* check: the loop over the groups ends the command without a baseline, the
\* loop over the targets and the loop over the mutants take no further item,
\* the poll loop kills the child; the command ends; and from then on the only
\* mutant on disk, and the only mutant whose outcome changes, is the one whose
\* test was already under way: every other change of a file puts the stored
\* text back.
C28_CancellationObserved ==
  /\ [][(command = "run" /\ ~running /\ pc = "groups") =>
          pc' = "done" /\ groups' = groups /\ child' = child /\ ctx' = ctx]_vars
  /\ [][(command = "run" /\ ~running /\ pc = "campaign") =>
          pc' = "campaign_end" /\ campaign_targets' = campaign_targets
          /\ mutant_queue' = mutant_queue]_vars
  /\ [][(command = "run" /\ ~running /\ pc = "mutants") =>
          /\ pc' = "campaign"
          /\ mutant_queue' = mutant_queue
          /\ disk' = disk
          /\ outcomes' = outcomes
          /\ ctx' = ctx]_vars
  /\ [][(command = "run" /\ ~running /\ pc = "poll" /\ pc' # pc) =>
          child' = "killed" /\ pc' \notin {"wait", "spawn"}]_vars
  /\ [][(command = "run" /\ ~running) =>
          /\ ctx' = "mutant" => ctx = "mutant" /\ tm_mutant' = tm_mutant
          /\ \A p \in DOMAIN disk : disk'[p] = disk[p] \/ disk'[p] = StoredText(p)
          /\ \A k \in 1..Len(outcomes') :
                (k > Len(outcomes) \/ outcomes'[k] # outcomes[k]) =>
                  /\ ctx = "mutant"
                  /\ outcomes'[k].mutant_id = tm_mutant[1].id]_vars
  /\ (command = "run" /\ ~running) ~> (pc \in {"done", "printed"})

\* SIGINT arrived after a test of this target was stored; the loop over the
\* mutants has stopped with mutants left in its queue, none of them on disk
C28_Witness ==
  /\ command = "run"
  /\ ~running
  /\ pc = "campaign"
  /\ mutant_queue # <<>>
  /\ iter_log # <<>>
  /\ ctx # "mutant"
  /\ \A p \in DOMAIN disk : disk[p] = StoredText(p)
  /\ get_outcome(outcomes, Head(mutant_queue).id) = <<>>

\* the poll loop finds the timeout of a mutant's test exceeded
TimedOutStep ==
  /\ ctx = "mutant"
  /\ pc = "poll"
  /\ timeout # NoneNum
  /\ clock >= timeout
  /\ pc' # pc

\* C29: when the poll loop finds the timeout of a mutant's test exceeded, the
\* child is killed and reaped, the file of the target gets its stored text
\* back, the store is left as it was only if the write of the outcome failed
\* and otherwise holds one row for the mutant, with status Timeout, the other
\* rows being untouched, and the loop goes on with the mutants (or ids) that
\* remain: no error is raised and nothing is taken from the queues.
C29_TimeoutNotFatal ==
  [][TimedOutStep =>
       /\ child' = "killed"
       /\ disk' = [disk EXCEPT ![tm_target[1].path] = tm_target[1].text]
       /\ ~has_active_mutation'
       /\ \/ outcomes' = outcomes
          \/ /\ get_outcome(outcomes', tm_mutant[1].id) # <<>>
             /\ get_outcome(outcomes', tm_mutant[1].id)[1].status = "Timeout"
             /\ Cardinality({k \in 1..Len(outcomes') :
                               outcomes'[k].mutant_id = tm_mutant[1].id}) = 1
             /\ \A k \in 1..Len(outcomes) :
                   outcomes[k].mutant_id # tm_mutant[1].id => outcomes'[k] = outcomes[k]
       /\ pc' = (IF command = "run" THEN "mutants" ELSE "ids")
       /\ ctx' = "none"
       /\ exit_error' = exit_error
       /\ campaign_result' = campaign_result
       /\ mutant_queue' = mutant_queue
       /\ ids' = ids
       /\ campaign_targets' = campaign_targets
       /\ groups' = groups]_vars

\* the test of the High mutant 2 timed out and was stored as a Timeout; the
\* next mutant of the queue is now on disk with its test running
C29_Witness ==
  /\ command = "run"
  /\ \E i \in 1..Len(iter_log) : iter_log[i] = [mutant_id |-> 2, status |-> "Timeout"]
  /\ get_outcome(outcomes, 2)[1].status = "Timeout"
  /\ get_outcome(outcomes, 2)[1].time = Now
  /\ ctx = "mutant"
  /\ tm_mutant[1].id = 3
  /\ child = "running"
  /\ exit_error = None

\* the statuses that the scheduler writes
SchedulerStatuses == {"Uncaught", "TestFail", "Timeout", "Skipped"}

\* every row that the step adds or changes has one of the four statuses
WritesSchedulerStatuses ==
  \A k \in 1..Len(outcomes') :
     (k > Len(outcomes) \/ outcomes'[k] # outcomes[k]) => outcomes'[k].status \in SchedulerStatuses

\* the step that stores the outcome of the mutant whose test was run
StoresRunOutcome ==
  /\ ctx = "mutant"
  /\ ctx' = "none"
  /\ outcomes' # outcomes

\* C30 as stated: every outcome that the scheduler writes has a status among
\* Uncaught, TestFail, Timeout and Skipped; the outcome of a mutant whose test
\* was run is Uncaught exactly when the child exited with code 0, TestFail
\* exactly when it exited with another code, and Timeout exactly when it was
\* killed for exceeding the timeout.
C30_StatusOfExit ==
  /\ [][WritesSchedulerStatuses]_vars
  /\ [][StoresRunOutcome =>
          LET new == get_outcome(outcomes', tm_mutant[1].id)[1] IN
            /\ new.status = "Uncaught" <=> (child = "exited" /\ child_code = 0)
            /\ new.status = "TestFail" <=> (child = "exited" /\ child_code # 0)
            /\ new.status = "Timeout" <=>
                 (child' = "killed" /\ timeout # NoneNum /\ clock >= timeout)]_vars

\* the slug of the mutant with this id
SlugOf(id) == (CHOOSE m \in Range(mutants) : m.id = id).mutation_slug

\* C33: with a --mutations list in effect, the loop of `run` passes over a
\* mutant whose slug is outside the list without writing a file or starting
\* the test command; the mutant on disk during `run` always has a slug of the
\* list; and no step of `run` stores an Uncaught, TestFail or Timeout outcome
\* for a mutant whose slug is outside the list.
C33_AllowListSkipsSilently ==
  /\ [][(MutantStep /\ allowed_slugs # {}
         /\ Head(mutant_queue).mutation_slug \notin allowed_slugs) =>
          /\ disk' = disk
          /\ ctx' = "none"
          /\ child' = child
          /\ pc' # "spawn"
          /\ ~has_active_mutation'
          /\ \A k \in 1..Len(outcomes') :
                (k > Len(outcomes) \/ outcomes'[k] # outcomes[k]) =>
                   outcomes'[k].status = "Skipped"]_vars
  /\ []((command = "run" /\ ctx = "mutant" /\ allowed_slugs # {}) =>
          tm_mutant[1].mutation_slug \in allowed_slugs)
  /\ [][(command = "run" /\ allowed_slugs # {}) =>
          \A k \in 1..Len(outcomes') :
             (/\ k > Len(outcomes) \/ outcomes'[k] # outcomes[k]
              /\ outcomes'[k].status \in {"Uncaught", "TestFail", "Timeout"}) =>
               SlugOf(outcomes'[k].mutant_id) \in allowed_slugs]_vars

\* --mutations ER,CR,ZZ: the loop over a.fc has ended, mutants 2 and 3 were
\* tested and stored, and mutant 1, whose slug BL is outside the list, has no
\* outcome and the file has its stored text
C33_Witness ==
  /\ command = "run"
  /\ running
  /\ allowed_slugs = {"ER", "CR", "ZZ"}
  /\ pc = "campaign"
  /\ mutant_queue = <<>>
  /\ Len(iter_log) = 2
  /\ {iter_log[1].mutant_id, iter_log[2].mutant_id} = {2, 3}
  /\ SlugOf(1) = "BL"
  /\ get_outcome(outcomes, 1) = <<>>
  /\ disk["a.fc"] = TextA

\* C34: whenever a file differs from the stored text of its target,
\* has_active_mutation is set and current_target is that target, which is what
\* cleanup and Drop need to restore it; and has_active_mutation is not set
\* when every file has its stored text.
C34_ActiveMutationTracked ==
  /\ \A p \in DOMAIN disk :
        disk[p] # StoredText(p) =>
          /\ has_active_mutation
          /\ current_target # <<>>
          /\ current_target[1].path = p
  /\ (\A p \in DOMAIN disk : disk[p] = StoredText(p)) => ~has_active_mutation

\* C35: when the child of a mutant's test exited before the timeout had
\* elapsed (or there is no timeout), the outcome stored for the mutant has the
\* status of the exit code, whatever the poll loop was doing when the child
\* exited.
C35_ExitBeforeTimeoutKeepsStatus ==
  [][(/\ StoresRunOutcome
      /\ child = "exited"
      /\ timeout = NoneNum \/ exit_clock < timeout) =>
       get_outcome(outcomes', tm_mutant[1].id)[1].status = status_of_exit(child_code)]_vars

\* the mutant of the id at the head of the ids of the group, with its target
HeadId == get_mutant(mutants, Head(ids))

HeadIdTarget == get_target(targets, HeadId[1].target_id)

\* C36: `test` takes the listed ids one by one; an id whose mutant and target
\* are read from the store is written to the file of its target and its test
\* is started, whatever outcome the mutant has and whatever was found
\* uncaught before, and otherwise (the read failed) nothing changes; the only
\* outcome that a step of `test` creates or changes is that of the listed
\* mutant whose test was run, every other row staying as it is; and when
\* test_mutant has returned, with or without an error, the loop goes on with
\* the ids that remain.
C36_TestRetestsListed ==
  /\ [][(command = "test" /\ pc = "ids" /\ running /\ ids # <<>> /\ ids' # ids) =>
          /\ ids' = Tail(ids)
          /\ outcomes' = outcomes
          /\ HeadId # <<>>
          /\ \/ /\ ctx' = "mutant"
                /\ pc' = "spawn"
                /\ tm_mutant' = HeadId
                /\ disk' = [disk EXCEPT ![HeadIdTarget[1].path] =
                                           mutate(HeadIdTarget[1], HeadId[1])]
             \/ /\ ctx' = "none"
                /\ pc' = "ids"
                /\ disk' = disk]_vars
  /\ [][(command = "test" /\ outcomes' # outcomes) =>
          /\ ctx = "mutant"
          /\ \E i \in 1..Len(arg_ids) : arg_ids[i] = tm_mutant[1].id
          /\ get_outcome(outcomes', tm_mutant[1].id) # <<>>
          /\ get_outcome(outcomes', tm_mutant[1].id)[1].status \in {"Uncaught", "TestFail", "Timeout"}
          /\ Cardinality({k \in 1..Len(outcomes') :
                            outcomes'[k].mutant_id = tm_mutant[1].id}) = 1
          /\ \A k \in 1..Len(outcomes) :
                outcomes[k].mutant_id # tm_mutant[1].id => outcomes'[k] = outcomes[k]]_vars
  /\ [][(command = "test" /\ ctx = "mutant" /\ ctx' = "none") =>
          /\ pc' = "ids"
          /\ ids' = ids
          /\ groups' = groups
          /\ exit_error' = exit_error]_vars

\* `test --ids 2,4,1` on the store of an earlier run: the test of mutant 2
\* failed to start, and mutant 1, which has the final outcome TestFail, is on
\* disk with its test running
C36_Witness ==
  /\ command = "test"
  /\ arg_ids = <<2, 4, 1>>
  /\ tm_error # <<>>
  /\ get_outcome(outcomes, 2) = get_outcome(PriorSome, 2)
  /\ get_outcome(outcomes, 1) # <<>>
  /\ get_outcome(outcomes, 1)[1].status = "TestFail"
  /\ ctx = "mutant"
  /\ tm_mutant[1].id = 1
  /\ child = "running"
  /\ exit_error = None

C39_UnknownSlugIsLow ==
  /\ [][(MutantStep
          /\ get_severity_by_slug(Head(mutant_queue).mutation_slug) = None
          /\ ~already_tested(get_outcome(outcomes, Head(mutant_queue).id))) =>
          /\ pc' # "campaign_end"
          /\ (pruning_enabled(comprehensive)
               /\ should_skip(2, Head(mutant_queue), uncaught_high_sev_lines,
                              uncaught_med_sev_lines)) =>
                (~HeadApplied /\ (HeadSkippedStored \/ outcomes' = outcomes))
          /\ (~(pruning_enabled(comprehensive)
                 /\ should_skip(2, Head(mutant_queue), uncaught_high_sev_lines,
                                uncaught_med_sev_lines))
               /\ ~filtered_out(allowed_slugs, Head(mutant_queue).mutation_slug)) =>
                HeadApplied]_vars
  /\ [][campaign_result' # campaign_result =>
          campaign_result' # "Mutation slug not found"]_vars

\* the targets of a `run`, as execute_run collects them
RunTargets == run_targets(targets, mutants, outcomes)

\* C32: under `run`, (1) the groups that execute_run builds partition its
\* targets: every target is an item of exactly one group, once, and the key
\* of that group is the (command, timeout) resolved for its path; (2) the
\* baseline is started once for each group taken from the set, without
\* timeout, and never otherwise, and no group is taken twice; (3) a mutant is
\* put on disk only after the baseline of the group of its target ended with
\* exit code 0; (4) the timeout of its test is the one computed from the
\* duration of that baseline, and it does not change while the mutants of the
\* group are tested.
C32_OneBaselinePerGroup ==
  /\ [][(command = "run" /\ pc = "start" /\ pc' = "groups") =>
          /\ \A i \in 1..Len(RunTargets) :
                \E g \in groups' :
                   /\ g.key = resolve_test_for_path_with_cli(RunTargets[i].path,
                                                             per_target_rule, cli_timeout)
                   /\ Cardinality({j \in 1..Len(g.items) : g.items[j] = RunTargets[i]}) = 1
                   /\ \A h \in groups' \ {g} : RunTargets[i] \notin Range(h.items)
          /\ \A g \in groups' : g.items # <<>> /\ Range(g.items) \subseteq Range(RunTargets)]_vars
  /\ [][(command = "run" /\ pc # "start" /\ groups' # groups) =>
          \E g \in groups :
             /\ groups' = groups \ {g}
             /\ group_start' # <<>> /\ group_start'[1].group = g
             /\ campaign_targets' = g.items
             /\ ctx' = "baseline" /\ pc' = "spawn"
             /\ timeout' = NoneNum
             /\ baseline_exit' = NoneNum]_vars
  /\ [][(command = "run" /\ ctx' = "baseline" /\ pc' = "spawn"
          /\ ~(ctx = "baseline" /\ pc = "spawn")) => groups' # groups]_vars
  /\ [][(command = "run" /\ ctx = "baseline" /\ child' = "running" /\ child # "running") =>
          (pc = "spawn" /\ pc' # "spawn" /\ timeout = NoneNum)]_vars
  /\ [][(command = "run" /\ ctx' = "mutant" /\ ctx # "mutant") =>
          /\ group_start # <<>>
          /\ tm_target'[1] \in Range(group_start[1].group.items)
          /\ baseline_exit = 0
          /\ timeout # NoneNum
          /\ \E ms \in BaselineMsSamples :
                actual_timeout(ms, group_start[1].group.key.timeout) =
                  [err |-> None, timeout |-> timeout,
                   warn |-> actual_timeout(ms, group_start[1].group.key.timeout).warn]]_vars
  /\ [][(command = "run" /\ timeout' # timeout) =>
          (ctx = "baseline" /\ timeout = NoneNum) \/ (groups' # groups /\ timeout' = NoneNum)]_vars

\* `run` with a rule of the configuration for b.fc: the group of a.fc was
\* taken first, its baseline passed, and a mutant of a.fc is under test while
\* the group of b.fc is still waiting
C32_Witness ==
  /\ command = "run"
  /\ per_target_rule
  /\ Cardinality(groups) = 1
  /\ ctx = "mutant"
  /\ child = "running"
  /\ tm_target[1].path = "a.fc"
  /\ baseline_exit = 0
  /\ timeout # NoneNum

(***************************************************************************)
(* DrainSpec: run_and_wait followed through the pipes of the child, for a  *)
(* runner without timeout and without cancellation.  The child writes its  *)
(* lines and exits; each reader thread moves lines from its pipe to its    *)
(* channel; the poll loop empties the channels, asks try_wait, sleeps.     *)
(***************************************************************************)
\* the lines the child may write to each stream
MaxStdoutLines == 2
MaxStderrLines == 1

LinesOfStream(s) ==
  IF s = "stdout" THEN SubSeq(<<"o1", "o2">>, 1, MaxStdoutLines)
  ELSE SubSeq(<<"e1">>, 1, MaxStderrLines)

\* line 718: format!("{stdout}\n\n{stderr}") with the two headers of 604-605
format_output(out, err) == <<"STDOUT:">> \o out \o <<"", "">> \o <<"STDERR:">> \o err

\* lines 596-605: the child is spawned, the strings hold their headers
InitDrain ==
  /\ targets = <<>>
  /\ mutants = <<>>
  /\ outcomes = <<>>
  /\ store_call = NoCall
  /\ NbIdle
  /\ SchedIdle
  /\ GenIdle
  /\ rw_child = "running"
  /\ written = [s \in Streams |-> <<>>]
  /\ pipe = [s \in Streams |-> <<>>]
  /\ rx = [s \in Streams |-> <<>>]
  /\ buf = [s \in Streams |-> <<>>]
  /\ rw_pc = "recv_stdout"
  /\ rw_result = <<>>

otherVars == <<storeVars, store_call, nbVars, schedVars, genVars, report>>

\* the test command writes its next line to one of its streams
ChildWrite(s) ==
  /\ rw_child = "running"
  /\ Len(written[s]) < Len(LinesOfStream(s))
  /\ written' = [written EXCEPT ![s] = Append(@, LinesOfStream(s)[Len(@) + 1])]
  /\ pipe' = [pipe EXCEPT ![s] = Append(@, LinesOfStream(s)[Len(written[s]) + 1])]
  /\ UNCHANGED <<otherVars, rw_child, rx, buf, rw_pc, rw_result>>

\* the test command ends with some exit code
ChildEnd ==
  /\ rw_child = "running"
  /\ rw_child' \in {"exit0", "exit1"}
  /\ UNCHANGED <<otherVars, written, pipe, rx, buf, rw_pc, rw_result>>

\* lines 612-644: a reader thread reads one line from its pipe and sends it;
\* the send fails once run_and_wait has returned and dropped the receiver
ReaderThread(s) ==
  /\ pipe[s] # <<>>
  /\ pipe' = [pipe EXCEPT ![s] = Tail(@)]
  /\ rx' = IF rw_pc = "returned" THEN rx ELSE [rx EXCEPT ![s] = Append(@, Head(pipe[s]))]
  /\ UNCHANGED <<otherVars, rw_child, written, buf, rw_pc, rw_result>>

\* try_recv until the channel is empty, without waiting
try_recv_all(queue) == queue

\* lines 668-688 and 693-712: the loops `while let Ok(line) = rx.try_recv()`
\* of the poll loop (recv_*) and of the exit branch (final_*)
Collect(s) ==
  /\ rw_pc \in {"recv_" \o s, "final_" \o s}
  /\ buf' = [buf EXCEPT ![s] = @ \o try_recv_all(rx[s])]
  /\ rx' = [rx EXCEPT ![s] = <<>>]
  /\ rw_pc' = (CASE rw_pc = "recv_stdout" -> "recv_stderr"
                 [] rw_pc = "recv_stderr" -> "try_wait"
                 [] rw_pc = "final_stdout" -> "final_stderr"
                 [] rw_pc = "final_stderr" -> "return")
  /\ UNCHANGED <<otherVars, rw_child, written, pipe, rw_result>>

\* lines 690-692 and 720-724: try_wait; a running child means a sleep of
\* 100 ms and the next round of the loop
TryWait ==
  /\ rw_pc = "try_wait"
  /\ rw_pc' = (IF rw_child = "running" THEN "recv_stdout" ELSE "final_stdout")
  /\ UNCHANGED <<otherVars, rw_child, written, pipe, rx, buf, rw_result>>

\* lines 714-719: the status of the exit code and the collected output
ReturnExited ==
  /\ rw_pc = "return"
  /\ rw_result' = <<[status |-> IF rw_child = "exit0" THEN "Uncaught" ELSE "TestFail",
                     output |-> format_output(buf["stdout"], buf["stderr"])]>>
  /\ rw_pc' = "returned"
  /\ UNCHANGED <<otherVars, rw_child, written, pipe, rx, buf>>

NextDrain ==
  \/ \E s \in Streams : ChildWrite(s)
  \/ ChildEnd
  \/ \E s \in Streams : ReaderThread(s)
  \/ \E s \in Streams : Collect(s)
  \/ TryWait
  \/ ReturnExited

DrainSpec == InitDrain /\ [][NextDrain]_vars

\* C31: when run_and_wait returns after the exit of the child, the output it
\* returns holds every line the child wrote to stdout and to stderr, in the
\* order of writing, however the reader threads were scheduled.
C31_OutputDrained ==
  rw_pc = "returned" =>
    rw_result[1].output = format_output(written["stdout"], written["stderr"])

(***************************************************************************)
(* Properties of the timeout rule (TimeoutSpec).                           *)
(***************************************************************************)
\* the least number of whole seconds that is not less than ms milliseconds
CeilSecs(ms) == CHOOSE d \in 0..(ms + 1) : d * 1000 >= ms /\ (d = 0 \/ (d - 1) * 1000 < ms)

NbDecided == nb_pc = "done" /\ nb_result.err \in {None, "Timeout too short"}

\* C7: with d_base the baseline duration rounded up to whole seconds,
\* new_with_baseline fails with "Timeout too short" exactly when a user timeout
\* below d_base is given; otherwise the timeout of the mutation runs is the user
\* timeout when given (with a warning exactly when d_base <= t_user < 2*d_base)
\* and 2*d_base when none is given; the baseline was run with no timeout.
C7_TimeoutRule ==
  /\ nb_pc = "decide" => nb_runner_timeout = NoneNum
  /\ NbDecided =>
       LET d_base == CeilSecs(nb_duration_ms)
           t_user == nb_user_timeout
       IN  /\ (nb_result.err = "Timeout too short") <=> (t_user # NoneNum /\ t_user < d_base)
           /\ nb_result.err = "Timeout too short" => nb_result.timeout = NoneNum
           /\ nb_result.err = None =>
                /\ nb_result.timeout = (IF t_user # NoneNum THEN t_user ELSE 2 * d_base)
                /\ nb_runner_timeout = nb_result.timeout
                /\ nb_result.warn <=> (t_user # NoneNum /\ d_base <= t_user /\ t_user < 2 * d_base)

\* a user timeout between d_base and 2*d_base was accepted with a warning, for a
\* baseline duration that is not a whole number of seconds
C7_Witness ==
  /\ nb_pc = "done"
  /\ nb_result.err = None
  /\ nb_result.warn
  /\ nb_duration_ms = 1001
  /\ nb_user_timeout = 3
  /\ nb_runner_timeout = 3

(***************************************************************************)
(* Properties of the store (StoreSpec).                                    *)
(***************************************************************************)
IsAddOutcome == store_call'.op = "add_outcome"
IsAddTarget == store_call'.op = "add_target"
IsAddMutant == store_call'.op = "add_mutant"
IsMutate == store_call'.op = "mutate"

IsRemoveTarget == store_call'.op = "remove_target"
IsClean == store_call'.op = "clean"
IsPurge == store_call'.op = "purge"

\* every stored mutant has its target, every stored outcome its mutant
NoDanglingRows ==
  /\ \A i \in 1..Len(mutants) : \E j \in 1..Len(targets) : targets[j].id = mutants[i].target_id
  /\ \A i \in 1..Len(outcomes) : \E j \in 1..Len(mutants) : mutants[j].id = outcomes[i].mutant_id

\* the rows of a table that a removal of the targets `ids` must leave, in order
RowsLeft(rows, Gone(_)) == SelectSeq(rows, LAMBDA r : ~Gone(r))

\* C21: remove_target(id) leaves no target with that id, no mutant of it and
\* no outcome of such a mutant, and leaves every other row as it was; after
\* any sequence of store operations, clean and purge included, every stored
\* mutant refers to a stored target and every stored outcome to a stored mutant.
C21_RemoveCascades ==
  /\ []NoDanglingRows
  /\ [][IsRemoveTarget =>
          LET id == store_call'.arg
              GoneT(t) == t.id = id
              GoneM(m) == m.target_id = id
              GoneO(o) == \E i \in 1..Len(mutants) :
                             mutants[i].id = o.mutant_id /\ mutants[i].target_id = id
          IN  /\ targets' = RowsLeft(targets, GoneT)
              /\ mutants' = RowsLeft(mutants, GoneM)
              /\ outcomes' = RowsLeft(outcomes, GoneO)]_vars
  /\ [][(IsClean \/ IsPurge) =>
          /\ \A i \in 1..Len(mutants') : \E j \in 1..Len(targets') :
                targets'[j].id = mutants'[i].target_id
          /\ \A i \in 1..Len(outcomes') : \E j \in 1..Len(mutants') :
                mutants'[j].id = outcomes'[i].mutant_id
          /\ \A i \in 1..Len(mutants) :
                (\E j \in 1..Len(targets') : targets'[j].id = mutants[i].target_id)
                   => \E k \in 1..Len(mutants') : mutants'[k] = mutants[i]
          /\ \A i \in 1..Len(outcomes) :
                (\E j \in 1..Len(mutants') : mutants'[j].id = outcomes[i].mutant_id)
                   => \E k \in 1..Len(outcomes') : outcomes'[k] = outcomes[i]]_vars

\* clean removed one target: the target left is the second one stored, and its
\* mutant and that mutant's outcome, the second ones stored, are the only rows left
C21_Witness ==
  /\ store_call.op = "clean"
  /\ store_call.ret = 1
  /\ Len(targets) = 1 /\ targets[1].id = 2
  /\ Len(mutants) = 1 /\ mutants[1].id = 2 /\ mutants[1].target_id = 2
  /\ Len(outcomes) = 1 /\ outcomes[1].mutant_id = 2

IdsOf(rows) == {rows[i].id : i \in 1..Len(rows)}

UntestedIds == {m.id : m \in {r \in Range(mutants) : get_outcome(outcomes, r.id) = <<>>}}

TimeoutIds ==
  {m.id : m \in {r \in Range(mutants) :
                   \E o \in Range(outcomes) : o.mutant_id = r.id /\ o.status = "Timeout"}}

RECURSIVE SumCounts(_)
SumCounts(ts) ==
  IF ts = <<>> THEN [untested_count |-> 0, retest_count |-> 0]
  ELSE LET c == get_mutant_test_counts(mutants, outcomes, Head(ts).id)
           rest == SumCounts(Tail(ts))
       IN  [untested_count |-> c.untested_count + rest.untested_count,
            retest_count |-> c.retest_count + rest.retest_count]

OneOutcomePerMutant ==
  \A i, j \in 1..Len(outcomes) : outcomes[i].mutant_id = outcomes[j].mutant_id => i = j

\* C8: the store never holds two Outcomes of one mutant id; add_outcome for a
\* mutant id that has a row replaces status, output, time and duration of that
\* row, and every call leaves the rows of all other mutants as they were.
C8_OutcomeUpsert ==
  /\ []OneOutcomePerMutant
  /\ [][IsAddOutcome =>
          LET o == store_call'.arg
              existed == \E i \in 1..Len(outcomes) : outcomes[i].mutant_id = o.mutant_id
          IN  /\ \A i \in 1..Len(outcomes) :
                   outcomes'[i] = IF outcomes[i].mutant_id = o.mutant_id THEN o ELSE outcomes[i]
              /\ existed => Len(outcomes') = Len(outcomes)
              /\ ~existed => outcomes' = Append(outcomes, o)]_vars

\* an Outcome was replaced by a second add_outcome while another mutant's row exists
C8_Witness ==
  /\ store_call.op = "add_outcome"
  /\ Len(outcomes) = 2
  /\ store_call.arg.status = "Timeout"
  /\ outcomes[1].mutant_id = 1
  /\ outcomes[1].status = "Timeout"
  /\ outcomes[1].time = 2

NoTwoTargetsShareHash ==
  \A i, j \in 1..Len(targets) : targets[i].file_hash = targets[j].file_hash => i = j

\* C9: no two target rows share a hash; add_target of a hash that is stored
\* returns the id of its row and inserts nothing, the row takes the path of the
\* call (so a moved file keeps its id) and keeps id, hash, text and language,
\* and the other rows are unchanged.
C9_TargetIdentity ==
  /\ []NoTwoTargetsShareHash
  /\ [][IsAddTarget =>
          LET t == store_call'.arg
              ret == store_call'.ret
              stored == {i \in 1..Len(targets) : targets[i].file_hash = digest(t.text)}
          IN  stored # {} =>
                /\ \A i \in stored : ret = targets[i].id
                /\ Len(targets') = Len(targets)
                /\ \A i \in 1..Len(targets) :
                     targets'[i] = IF i \in stored
                                     THEN [targets[i] EXCEPT !.path = t.path]
                                     ELSE targets[i]]_vars

\* a file registered under a.fc was registered again under b.fc: same id, new path
C9_Witness ==
  /\ store_call.op = "add_target"
  /\ store_call.arg.path = "b.fc"
  /\ store_call.arg.text = TextA
  /\ Len(targets) = 2
  /\ targets[1].text = TextA
  /\ targets[1].path = "b.fc"
  /\ store_call.ret = targets[1].id
  /\ targets[2].path = "b.fc"

IdentityTuple(m) ==
  <<m.target_id, m.byte_offset, m.old_text, m.new_text, m.mutation_slug>>

NoTwoMutantsShareTuple ==
  \A i, j \in 1..Len(mutants) :
    IdentityTuple(mutants[i]) = IdentityTuple(mutants[j]) => i = j

Stored(m) == \E i \in 1..Len(mutants) : IdentityTuple(mutants[i]) = IdentityTuple(m)

\* C10: no two stored mutants share (target_id, byte_offset, old_text, new_text,
\* slug); add_mutant of a stored tuple returns None and changes nothing, and
\* persisting a generated list whose mutants are all stored adds no row.
C10_MutantDedup ==
  /\ []NoTwoMutantsShareTuple
  /\ [][/\ (IsAddMutant /\ Stored(store_call'.arg)) =>
               (store_call'.ret = NoneNum /\ mutants' = mutants)
        /\ (IsMutate /\ (\A k \in 1..Len(store_call'.arg) : Stored(store_call'.arg[k]))) =>
               (mutants' = mutants)]_vars

\* a stored mutant was offered again with another line_offset and was refused
C10_Witness ==
  /\ store_call.op = "add_mutant"
  /\ store_call.ret = NoneNum
  /\ store_call.arg.line_offset = 1
  /\ store_call.arg.byte_offset = 0
  /\ Len(mutants) = 1
  /\ mutants[1].line_offset = 0

====
